---------------------------- MODULE Spec2Model ----------------------------
(***************************************************************************)
(* A model of parse-zoneinfo's line parser (src/parse-zoneinfo/src/line.rs) *)
(* A string is a sequence of characters, a character a one-element string. *)
(* Every parser is an operator computed the way the Rust code computes it,  *)
(* on the characters of its input.  A call that can abort returns a Panic  *)
(* value instead of a result.                                              *)
(***************************************************************************)
EXTENDS Integers, Sequences, FiniteSets, TLC

VARIABLES
    lead,      \* Line::new's input: the whitespace the line starts with
    toks,      \* ... its columns, each a string without whitespace or '#'
    tail,      \* ... what follows the last column: whitespace, a comment
    result,    \* what Line::new returned for that input (NotCalled before)
    argYear,   \* Weekday::calculate's arguments: year,
    argMonth,  \* ... month (1..12),
    argDay,    \* ... day of the month
    weekday,   \* what Weekday::calculate returned for them (NotCalled before)
    call,      \* a call of one of the other functions: its name and arguments
    ret        \* what that call returned (NotCalled before)

vars == <<lead, toks, tail, result, argYear, argMonth, argDay, weekday, call, ret>>
callVars == <<call, ret>>
lineVars == <<lead, toks, tail, result>>
calVars == <<argYear, argMonth, argDay, weekday>>

---------------------------------------------------------------------------
(* Strings and characters *)

None == [tag |-> "None"]
Some(v) == [tag |-> "Some", val |-> v]

\* The characters of a string literal.
S(s) == [i \in 1..Len(s) |-> SubSeq(s, i, i)] \o <<>>

\* U+2010 HYPHEN, one character of three UTF-8 bytes.
UHyphen == "U+2010"

UpperChars == S("ABCDEFGHIJKLMNOPQRSTUVWXYZ")
LowerChars == S("abcdefghijklmnopqrstuvwxyz")
DigitChars == S("0123456789")

Range(f) == {f[i] : i \in DOMAIN f}

\* The string literals of line.rs.
Hyphen == S("-")
Hash == S("#")
KwZone == S("Zone")
KwRule == S("Rule")
KwLink == S("Link")
KwOnly == S("only")
KwLast == S("last")
YearMinNames == {S("min"), S("minimum")}
YearMaxNames == {S("max"), S("maximum")}
DirAfter == Some(S(">="))
DirBefore == Some(S("<="))
LeadChars_SpaceOnly == {" "}
LeadChars == {" ", "\t"}

DigitSet == Range(DigitChars)
UpperSet == Range(UpperChars)
LetterSet == Range(UpperChars) \cup Range(LowerChars)
AsciiWhitespace == {" ", "\t", "\n", "\f", "\r"}

is_ascii_digit(c) == c \in DigitSet
is_alphabetic(c) == c \in LetterSet
\* char::is_ascii_whitespace: space, tab, line feed, form feed, carriage return
is_ascii_whitespace(c) == c \in AsciiWhitespace
\* is_whitespace that knows the space only.
is_whitespace_SpaceOnly(c) == c = " "

\* char::is_whitespace (White_Space), on the characters of the model
is_whitespace(c) == c \in AsciiWhitespace

DigitValues == [c \in DigitSet |-> (CHOOSE i \in 1..10 : DigitChars[i] = c) - 1]
DigitVal(c) == DigitValues[c]

\* The UTF-8 length of a character, and of a string (str::len).
CharBytes(c) == IF c = UHyphen THEN 3 ELSE 1

RECURSIVE ByteLen(_)
ByteLen(s) == IF s = <<>> THEN 0 ELSE CharBytes(Head(s)) + ByteLen(Tail(s))

AllChars(s, P(_)) == \A i \in 1..Len(s) : P(s[i])

LowerOf == [c \in UpperSet |-> LowerChars[CHOOSE i \in 1..26 : UpperChars[i] = c]]

to_ascii_lowercase_char(c) == IF c \in UpperSet THEN LowerOf[c] ELSE c

to_ascii_lowercase(s) ==
    [i \in 1..Len(s) |-> to_ascii_lowercase_char(s[i])] \o <<>>

starts_with(s, p) == Len(s) >= Len(p) /\ \A i \in 1..Len(p) : s[i] = p[i]

\* str::trim: the string without its leading and trailing whitespace.
RECURSIVE trim_start(_)
trim_start(s) ==
    IF s # <<>> /\ is_whitespace(Head(s)) THEN trim_start(Tail(s)) ELSE s

RECURSIVE trim_end(_)
trim_end(s) ==
    IF s # <<>> /\ is_whitespace(s[Len(s)])
    THEN trim_end(SubSeq(s, 1, Len(s) - 1))
    ELSE s

trim(s) == trim_end(trim_start(s))

\* The index of the first occurrence of character c in s, or 0.
RECURSIVE FindFrom(_, _, _)
FindFrom(s, c, i) ==
    IF i > Len(s) THEN 0 ELSE IF s[i] = c THEN i ELSE FindFrom(s, c, i + 1)

\* str::split_once('#'), keeping the part before the delimiter; the whole
\* string when there is none (Line::new's match).
BeforeHash(s) ==
    LET i == FindFrom(s, "#", 1)
    IN  IF i = 0 THEN s ELSE SubSeq(s, 1, i - 1)

\* str::split_ascii_whitespace: the non-empty runs of non-whitespace.
RECURSIVE SplitWsFrom(_, _, _, _)
SplitWsFrom(s, i, cur, acc) ==
    IF i > Len(s)
    THEN IF cur = <<>> THEN acc ELSE Append(acc, cur)
    ELSE IF is_ascii_whitespace(s[i])
         THEN SplitWsFrom(s, i + 1, <<>>,
                          IF cur = <<>> THEN acc ELSE Append(acc, cur))
         ELSE SplitWsFrom(s, i + 1, Append(cur, s[i]), acc)

split_ascii_whitespace(s) == SplitWsFrom(s, 1, <<>>, <<>>)

\* str::split(':'): the parts between the colons, empty parts included.
RECURSIVE SplitColonFrom(_, _, _, _)
SplitColonFrom(s, i, cur, acc) ==
    IF i > Len(s)
    THEN Append(acc, cur)
    ELSE IF s[i] = ":"
         THEN SplitColonFrom(s, i + 1, <<>>, Append(acc, cur))
         ELSE SplitColonFrom(s, i + 1, Append(cur, s[i]), acc)

split_colon(s) == SplitColonFrom(s, 1, <<>>, <<>>)

\* The number of leading characters of s that make up exactly n bytes, or -1
\* when byte offset n is inside a character or past the end.
RECURSIVE CharsForBytes(_, _)
CharsForBytes(s, n) ==
    IF n = 0 THEN 0
    ELSE IF s = <<>> \/ CharBytes(Head(s)) > n THEN -1
    ELSE LET r == CharsForBytes(Tail(s), n - CharBytes(Head(s)))
         IN  IF r < 0 THEN -1 ELSE r + 1

\* str::get(a..b) with byte offsets a <= b: None unless both are character
\* boundaries within the string.
str_get(s, a, b) ==
    LET i == CharsForBytes(s, a)
        j == CharsForBytes(s, b)
    IN  IF i < 0 \/ j < 0 THEN None ELSE Some(SubSeq(s, i + 1, j))

\* str::get(a..)
str_get_from(s, a) == str_get(s, a, ByteLen(s))

---------------------------------------------------------------------------
(* Results *)

Ok(v) == [tag |-> "Ok", val |-> v]
Err(kind, text) == [tag |-> "Err", kind |-> kind, text |-> text]
ErrNoText(kind) == Err(kind, <<>>)
Panic(msg) == [tag |-> "Panic", msg |-> msg]
NotCalled == [tag |-> "NotCalled"]
NoCall == [fn |-> "none"]

IsOk(r) == r.tag = "Ok"
IsErr(r) == r.tag = "Err"
IsPanic(r) == r.tag = "Panic"

\* The ? operator: go on with the value of an Ok, return anything else.
AndThen(r, F(_)) == IF r.tag = "Ok" THEN F(r.val) ELSE r
\* Result::map, under ?
MapOk(r, F(_)) == IF r.tag = "Ok" THEN Ok(F(r.val)) ELSE r
\* Option::ok_or / Result::map_err(|_| err)
OkOr(opt, err) == IF opt.tag = "Some" THEN Ok(opt.val) ELSE err

---------------------------------------------------------------------------
(* Integer parsing: <iN as FromStr>::from_str *)

RECURSIVE StripZeros(_)
StripZeros(s) == IF s # <<>> /\ Head(s) = "0" THEN StripZeros(Tail(s)) ELSE s

\* Whether digit string a is a larger number than digit string b, both
\* without leading zeros.
RECURSIVE DigitsGreater(_, _)
DigitsGreater(a, b) ==
    IF Len(a) # Len(b) THEN Len(a) > Len(b)
    ELSE IF a = <<>> THEN FALSE
    ELSE IF Head(a) # Head(b) THEN DigitVal(Head(a)) > DigitVal(Head(b))
    ELSE DigitsGreater(Tail(a), Tail(b))

RECURSIVE DigitsValue(_, _)
DigitsValue(s, acc) ==
    IF s = <<>> THEN acc ELSE DigitsValue(Tail(s), acc * 10 + DigitVal(Head(s)))

\* The number written by digits (no leading zeros), negated if neg, when its
\* magnitude is at most the one written by limit.
IntInRange(digits, neg, limit) ==
    IF DigitsGreater(digits, limit) THEN None
    ELSE Some(IF neg THEN -DigitsValue(digits, 0) ELSE DigitsValue(digits, 0))

\* The digits after the sign: at least one, and nothing but digits.
IntOfBody(body, neg, limit) ==
    IF body = <<>> \/ ~AllChars(body, is_ascii_digit) THEN None
    ELSE IntInRange(StripZeros(body), neg, limit)

\* from_str of an integer type whose largest value is written maxDigits and
\* whose smallest is minus minDigits (signed), or 0 (unsigned): an optional
\* sign, then at least one digit, and a value the type holds.
int_from_str(s, signed, maxDigits, minDigits) ==
    IF s # <<>> /\ signed /\ Head(s) = "-" THEN IntOfBody(Tail(s), TRUE, minDigits)
    ELSE IF s # <<>> /\ Head(s) = "+" THEN IntOfBody(Tail(s), FALSE, maxDigits)
    ELSE IntOfBody(s, FALSE, maxDigits)

\* i8::MAX, -i8::MIN, u8::MAX, -u8::MIN, i64::MAX and -i64::MIN in digits.
I8Max == S("127")
I8Min == S("128")
U8Max == S("255")
U8Min == S("0")
I64Max == S("9223372036854775807")
I64Min == S("9223372036854775808")

i8_from_str(s) == int_from_str(s, TRUE, I8Max, I8Min)
u8_from_str(s) == int_from_str(s, FALSE, U8Max, U8Min)
i64_from_str(s) == int_from_str(s, TRUE, I64Max, I64Min)

\* `u8 as i8`: the same eight bits read as a signed number.
u8_as_i8(n) == IF n >= 128 THEN n - 256 ELSE n

---------------------------------------------------------------------------
(* Field values *)

Year_Minimum == [tag |-> "Minimum"]
Year_Maximum == [tag |-> "Maximum"]
Year_Number(n) == [tag |-> "Number", n |-> n]

\* YearOfLower whose error carries the lowercased text.
YearOfLower_LowerText(input, lower) ==
    IF lower \in YearMinNames THEN Ok(Year_Minimum)
    ELSE IF lower \in YearMaxNames THEN Ok(Year_Maximum)
    ELSE MapOk(OkOr(i64_from_str(lower), Err("FailedYearParse", lower)),
               Year_Number)

\* The match of Year::from_str on the lowercased input.
YearOfLower(input, lower) ==
    IF lower \in YearMinNames THEN Ok(Year_Minimum)
    ELSE IF lower \in YearMaxNames THEN Ok(Year_Maximum)
    ELSE MapOk(OkOr(i64_from_str(lower), Err("FailedYearParse", input)),
               Year_Number)

Year_from_str(input) == YearOfLower(input, to_ascii_lowercase(input))

\* Month is its discriminant, January = 1 .. December = 12.
MonthAbbr ==
    <<"jan", "feb", "mar", "apr", "may", "jun",
      "jul", "aug", "sep", "oct", "nov", "dec">>
MonthFull ==
    <<"january", "february", "march", "april", "may", "june",
      "july", "august", "september", "october", "november", "december">>
MonthNames == [m \in 1..12 |-> {S(MonthAbbr[m]), S(MonthFull[m])}]

\* The match of Month::from_str on the lowercased input.
MonthOfLower(lower) ==
    IF \E m \in 1..12 : lower \in MonthNames[m]
    THEN Ok(CHOOSE m \in 1..12 : lower \in MonthNames[m])
    ELSE Err("FailedMonthParse", lower)

Month_from_str(input) == MonthOfLower(to_ascii_lowercase(input))

\* Weekday in declaration order, Sunday first.
Weekdays ==
    <<"Sunday", "Monday", "Tuesday", "Wednesday", "Thursday", "Friday",
      "Saturday">>
WeekdayAbbr == <<"sun", "mon", "tue", "wed", "thu", "fri", "sat">>
WeekdayFull ==
    <<"sunday", "monday", "tuesday", "wednesday", "thursday", "friday",
      "saturday">>
WeekdayNames == [w \in 1..7 |-> {S(WeekdayAbbr[w]), S(WeekdayFull[w])}]

\* The match of Weekday::from_str on the lowercased input.
WeekdayOfLower(lower) ==
    IF \E w \in 1..7 : lower \in WeekdayNames[w]
    THEN Ok(Weekdays[CHOOSE w \in 1..7 : lower \in WeekdayNames[w]])
    ELSE Err("FailedWeekdayParse", lower)

Weekday_from_str(input) == WeekdayOfLower(to_ascii_lowercase(input))

\* What a function that is not fallible returns, when it returns.
Returned(v) == [tag |-> "Returned", val |-> v]

\* i64 `/` and `%` by a positive divisor: the quotient is rounded towards
\* zero and the remainder has the sign of the dividend.
TruncDiv(a, b) == IF a >= 0 THEN a \div b ELSE -((-a) \div b)
TruncRem(a, b) == a - b * TruncDiv(a, b)

\* The table T of Weekday::calculate.
WeekdayT == <<0, 3, 2, 5, 0, 3, 5, 1, 4, 6, 2, 4>>

\* The match of Weekday::calculate on the remainder r.
WeekdayOfRem(r) ==
    IF r \in 0..6 THEN Returned(Weekdays[r + 1])
    ELSE Panic("why is negative modulus designed so?")

\* Weekday::calculate from the match on: y is the year the carry counts from.
WeekdayOfYear(y, month, day) ==
    WeekdayOfRem(TruncRem(y + TruncDiv(y, 4) - TruncDiv(y, 100) + TruncDiv(y, 400)
                            + WeekdayT[month] + day, 7))

Weekday_calculate(year, month, day) ==
    WeekdayOfYear(IF month < 3 THEN year - 1 ELSE year, month, day)

\* is_leap without the rule of the centuries.
is_leap_EveryFourth(year) == year % 4 = 0

\* year & 3 == 0 && (year % 25 != 0 || year & 15 == 0): the bitwise tests
\* read the two's complement, so they are the remainders rounded down.
is_leap(year) == year % 4 = 0 /\ (TruncRem(year, 25) # 0 \/ year % 16 = 0)

Month_length(month, leap) ==
    IF month = 2 THEN (IF leap THEN 29 ELSE 28)
    ELSE IF month \in {4, 6, 9, 11} THEN 30
    ELSE 31

DaySpec_Ordinal(d) == [tag |-> "Ordinal", day |-> d]
DaySpec_Last(w) == [tag |-> "Last", weekday |-> w]
DaySpec_LastOnOrBefore(w, d) ==
    [tag |-> "LastOnOrBefore", weekday |-> w, day |-> d]
DaySpec_FirstOnOrAfter(w, d) ==
    [tag |-> "FirstOnOrAfter", weekday |-> w, day |-> d]

\* DaySpec::Ordinal(input.parse().unwrap()), n being input.parse() as i8
DaySpecOrdinal(n) ==
    IF n = None THEN Panic("unwrap on Err") ELSE Ok(DaySpec_Ordinal(n.val))

\* The end of DaySpec::from_str: the day number n (a u8) and the direction.
DaySpecDay(input, w, dir, n) ==
    IF n = None THEN Err("InvalidDaySpec", input)
    ELSE IF dir = DirAfter THEN Ok(DaySpec_FirstOnOrAfter(w, u8_as_i8(n.val)))
    ELSE Ok(DaySpec_LastOnOrBefore(w, u8_as_i8(n.val)))

\* DaySpec::from_str from `let weekday` on: wd is input.get(..3) and dir
\* input.get(3..5).
DaySpecRelative(input, wd, dir) ==
    IF wd = None THEN Err("InvalidDaySpec", input)
    ELSE AndThen(Weekday_from_str(wd.val), LAMBDA w :
            IF dir \notin {DirAfter, DirBefore} THEN Err("InvalidDaySpec", input)
            ELSE DaySpecDay(input, w, dir, u8_from_str(str_get_from(input, 5).val)))

DaySpec_from_str(input) ==
    IF AllChars(input, is_ascii_digit) THEN DaySpecOrdinal(i8_from_str(input))
    ELSE IF starts_with(input, KwLast)
    THEN MapOk(Weekday_from_str(SubSeq(input, 5, Len(input))), DaySpec_Last)
    ELSE DaySpecRelative(input, str_get(input, 0, 3), str_get(input, 3, 5))

\* Month::prev_in_year that wraps from January to December.
Month_prev_in_year_Wraps(month) ==
    IF month = 1 THEN Ok(12) ELSE Ok(month - 1)

\* Month::prev_in_year and Month::next_in_year, whose error is a message.
Month_prev_in_year(month) ==
    IF month = 1 THEN ErrNoText("Cannot wrap years from jan->dec")
    ELSE Ok(month - 1)
Month_next_in_year(month) ==
    IF month = 12 THEN ErrNoText("Cannot wrap year from dec->jan")
    ELSE Ok(month + 1)

\* Weekday::calculate(year, m.unwrap(), day), m a Result<Month, _>
WeekdayIn(year, m, day) ==
    IF IsOk(m) THEN Weekday_calculate(year, m.val, day)
    ELSE Panic("unwrap on Err")

\* One step of a search for a day that falls on weekday wday: w is what
\* Weekday::calculate gave for the day at hand, found what the search
\* returns when it is that weekday, rest the search of the days after it.
MatchWeekday(w, wday, found, rest) ==
    IF IsPanic(w) THEN w ELSE IF w.val = wday THEN found ELSE rest

\* (1..length + 1).rev().find(..).unwrap(), from day on
RECURSIVE LastFrom(_, _, _, _)
LastFrom(year, month, wday, day) ==
    IF day < 1 THEN Panic("unwrap on None")
    ELSE MatchWeekday(Weekday_calculate(year, month, day), wday,
                      Returned(<<month, day>>),
                      LastFrom(year, month, wday, day - 1))

\* The search of DaySpec::Last that leaves out the last day of the month.
DaySpecLast_SkipsLastDay(year, month, wday, length) ==
    LastFrom(year, month, wday, length - 1)

\* The arm of DaySpec::Last
DaySpecLast(year, month, wday, length) ==
    LastFrom(year, month, wday, length)

\* (-7..day + 1).rev().flat_map(..).next().unwrap(), from inner_day on
RECURSIVE BeforeFrom(_, _, _, _, _)
BeforeFrom(year, month, wday, prev_length, inner_day) ==
    IF inner_day < -7 THEN Panic("unwrap on None")
    ELSE IF inner_day >= 1
    THEN MatchWeekday(Weekday_calculate(year, month, inner_day), wday,
                      Returned(<<month, inner_day>>),
                      BeforeFrom(year, month, wday, prev_length, inner_day - 1))
    ELSE MatchWeekday(WeekdayIn(year, Month_prev_in_year(month),
                                prev_length + inner_day),
                      wday,
                      Returned(<<month - 1, prev_length + inner_day>>),
                      BeforeFrom(year, month, wday, prev_length, inner_day - 1))

\* The search of DaySpec::LastOnOrBefore that starts the day before.
DaySpecBefore_Strictly(year, month, wday, day, prev_length) ==
    BeforeFrom(year, month, wday, prev_length, day - 1)

\* The arm of DaySpec::LastOnOrBefore; day + 1 is an i8, and past i8::MAX
\* it aborts or wraps to an empty range, whose .next().unwrap() aborts.
DaySpecBefore(year, month, wday, day, prev_length) ==
    IF day + 1 > 127 THEN Panic("attempt to add with overflow")
    ELSE BeforeFrom(year, month, wday, prev_length, day)

\* (day..day + 8).flat_map(..).next().unwrap(), from inner_day on
RECURSIVE AfterFrom(_, _, _, _, _, _)
AfterFrom(year, month, wday, length, inner_day, last) ==
    IF inner_day > last THEN Panic("unwrap on None")
    ELSE IF inner_day <= length
    THEN MatchWeekday(Weekday_calculate(year, month, inner_day), wday,
                      Returned(<<month, inner_day>>),
                      AfterFrom(year, month, wday, length, inner_day + 1, last))
    ELSE MatchWeekday(WeekdayIn(year, Month_next_in_year(month),
                                inner_day - length),
                      wday,
                      Returned(<<month + 1, inner_day - length>>),
                      AfterFrom(year, month, wday, length, inner_day + 1, last))

\* The search of DaySpec::FirstOnOrAfter that starts the day after.
DaySpecAfter_Strictly(year, month, wday, day, length) ==
    AfterFrom(year, month, wday, length, day + 1, day + 8)

\* The arm of DaySpec::FirstOnOrAfter; day + 8 is an i8, and past i8::MAX
\* it aborts or wraps to an empty range, whose .next().unwrap() aborts.
DaySpecAfter(year, month, wday, day, length) ==
    IF day + 8 > 127 THEN Panic("attempt to add with overflow")
    ELSE AfterFrom(year, month, wday, length, day, day + 7)

\* month.prev_in_year().map(|m| m.length(leap)).unwrap_or(0)
PrevLength(month, leap) ==
    IF month = 1 THEN 0 ELSE Month_length(month - 1, leap)

DaySpec_to_concrete_day(self, year, month) ==
    IF self.tag = "Ordinal" THEN Returned(<<month, self.day>>)
    ELSE IF self.tag = "Last"
    THEN DaySpecLast(year, month, self.weekday,
                     Month_length(month, is_leap(year)))
    ELSE IF self.tag = "LastOnOrBefore"
    THEN DaySpecBefore(year, month, self.weekday, self.day,
                       PrevLength(month, is_leap(year)))
    ELSE DaySpecAfter(year, month, self.weekday, self.day,
                      Month_length(month, is_leap(year)))

TimeSpec_Zero == [tag |-> "Zero"]
TimeSpec_Hours(h) == [tag |-> "Hours", h |-> h]
TimeSpec_HoursMinutes(h, m) == [tag |-> "HoursMinutes", h |-> h, m |-> m]
TimeSpec_HoursMinutesSeconds(h, m, s) ==
    [tag |-> "HoursMinutesSeconds", h |-> h, m |-> m, s |-> s]

\* One arm of the match in TimeSpec::from_str: n is i8::from_str(part).
TimeSpecPart(input, n, F(_)) ==
    IF n = None THEN Err("InvalidTimeSpecAndType", input) ELSE Ok(F(n.val))

\* TimeSpecStep that leaves the seconds without the sign of the input.
TimeSpecStep_SecondsUnsigned(input, neg, state, part) ==
    IF state.tag = "Zero"
    THEN TimeSpecPart(input, i8_from_str(part), TimeSpec_Hours)
    ELSE IF state.tag = "Hours" /\ ByteLen(part) = 2
    THEN TimeSpecPart(input, i8_from_str(part),
                      LAMBDA n : TimeSpec_HoursMinutes(state.h, n * neg))
    ELSE IF state.tag = "HoursMinutes" /\ ByteLen(part) = 2
    THEN TimeSpecPart(input, i8_from_str(part),
             LAMBDA n : TimeSpec_HoursMinutesSeconds(state.h, state.m, n))
    ELSE Err("InvalidTimeSpecAndType", input)

\* The match in the loop of TimeSpec::from_str.
TimeSpecStep(input, neg, state, part) ==
    IF state.tag = "Zero"
    THEN TimeSpecPart(input, i8_from_str(part), TimeSpec_Hours)
    ELSE IF state.tag = "Hours" /\ ByteLen(part) = 2
    THEN TimeSpecPart(input, i8_from_str(part),
                      LAMBDA n : TimeSpec_HoursMinutes(state.h, n * neg))
    ELSE IF state.tag = "HoursMinutes" /\ ByteLen(part) = 2
    THEN TimeSpecPart(input, i8_from_str(part),
             LAMBDA n : TimeSpec_HoursMinutesSeconds(state.h, state.m, n * neg))
    ELSE Err("InvalidTimeSpecAndType", input)

\* The loop of TimeSpec::from_str over the parts between the colons.
RECURSIVE TimeSpecFold(_, _, _, _)
TimeSpecFold(input, neg, state, parts) ==
    IF parts = <<>> THEN Ok(state)
    ELSE AndThen(TimeSpecStep(input, neg, state, Head(parts)),
                 LAMBDA next : TimeSpecFold(input, neg, next, Tail(parts)))

TimeSpec_from_str(input) ==
    IF input = Hyphen THEN Ok(TimeSpec_Zero)
    ELSE TimeSpecFold(input, IF starts_with(input, Hyphen) THEN -1 ELSE 1,
                      TimeSpec_Zero, split_colon(input))

\* TimeType::from_char that does not know 'z'.
TimeType_from_char_NoZ(c) ==
    IF c = "w" THEN Some("Wall")
    ELSE IF c = "s" THEN Some("Standard")
    ELSE IF c \in {"u", "g"} THEN Some("UTC")
    ELSE None

TimeType_from_char(c) ==
    IF c = "w" THEN Some("Wall")
    ELSE IF c = "s" THEN Some("Standard")
    ELSE IF c \in {"u", "g", "z"} THEN Some("UTC")
    ELSE None

TimeSpecAndType(spec, type) == [spec |-> spec, type |-> type]

IsHyphenOrDigit(c) == c = "-" \/ is_ascii_digit(c)

\* TimeSpecAndType::from_str from `let (input, ty)` on: ty is the type the
\* last character stands for, if any.
TimeSpecWithType(input, ty) ==
    MapOk(TimeSpec_from_str(IF ty = None THEN input
                            ELSE SubSeq(input, 1, Len(input) - 1)),
          LAMBDA spec : TimeSpecAndType(spec, IF ty = None THEN "Wall" ELSE ty.val))

TimeSpecAndType_from_str(input) ==
    IF input = Hyphen THEN Ok(TimeSpecAndType(TimeSpec_Zero, "Wall"))
    ELSE IF AllChars(input, IsHyphenOrDigit)
    THEN MapOk(TimeSpec_from_str(input),
               LAMBDA spec : TimeSpecAndType(spec, "Wall"))
    ELSE TimeSpecWithType(input, TimeType_from_char(input[Len(input)]))

Saving_NoSaving == [tag |-> "NoSaving"]
Saving_OneOff(t) == [tag |-> "OneOff", time |-> t]
Saving_Multiple(name) == [tag |-> "Multiple", name |-> name]

IsNameChar(c) == c = "-" \/ c = "_" \/ is_alphabetic(c)

\* The last two arms of Saving::from_str: time is TimeSpec::from_str(input).
SavingOfTime(input, time) ==
    IF IsOk(time) THEN Ok(Saving_OneOff(time.val))
    ELSE Err("CouldNotParseSaving", input)

Saving_from_str(input) ==
    IF input = Hyphen THEN Ok(Saving_NoSaving)
    ELSE IF AllChars(input, IsNameChar) THEN Ok(Saving_Multiple(input))
    ELSE SavingOfTime(input, TimeSpec_from_str(input))

ChangeTime_UntilYear(y) == [tag |-> "UntilYear", year |-> y]
ChangeTime_UntilMonth(y, m) == [tag |-> "UntilMonth", year |-> y, month |-> m]
ChangeTime_UntilDay(y, m, d) ==
    [tag |-> "UntilDay", year |-> y, month |-> m, day |-> d]
ChangeTime_UntilTime(y, m, d, t) ==
    [tag |-> "UntilTime", year |-> y, month |-> m, day |-> d, time |-> t]

\* TimeSpec::as_seconds
TimeSpec_as_seconds(self) ==
    IF self.tag = "Hours" THEN self.h * 60 * 60
    ELSE IF self.tag = "HoursMinutes" THEN self.h * 60 * 60 + self.m * 60
    ELSE IF self.tag = "HoursMinutesSeconds"
    THEN self.h * 60 * 60 + self.m * 60 + self.s
    ELSE 0

\* An i64 count of seconds goes beyond the integers of TLC, which have 32
\* bits: it is written <<q, r>> for q * 86400 + r with 0 <= r < 86400.
I64(n) == <<n \div 86400, n % 86400>>
I64Add(a, b) == <<a[1] + b[1] + ((a[2] + b[2]) \div 86400), (a[2] + b[2]) % 86400>>
I64Neg(a) == IF a[2] = 0 THEN <<-a[1], 0>> ELSE <<-a[1] - 1, 86400 - a[2]>>
I64Sub(a, b) == I64Add(a, I64Neg(b))

\* seconds_in_year that forgets the leap day.
seconds_in_year_NoLeap(year) == 365 * 24 * 60 * 60

seconds_in_year(year) ==
    IF is_leap(year) THEN 366 * 24 * 60 * 60 ELSE 365 * 24 * 60 * 60

\* (from..to).map(seconds_in_year).sum(), the range being summed by halves.
RECURSIVE SumYears(_, _)
SumYears(from, to) ==
    IF from >= to THEN I64(0)
    ELSE IF from + 1 = to THEN I64(seconds_in_year(from))
    ELSE I64Add(SumYears(from, (from + to) \div 2),
                SumYears((from + to) \div 2, to))

seconds_until_start_of_year(year) ==
    IF year >= 1970 THEN SumYears(1970, year) ELSE I64Neg(SumYears(year, 1970))

\* MONTHS_LEAP without the leap day.
MONTHS_LEAP_NoLeapDay == <<0, 31, 59, 90, 120, 151, 181, 212, 243, 273, 304, 334>>

MONTHS_NON_LEAP == <<0, 31, 59, 90, 120, 151, 181, 212, 243, 273, 304, 334>>
MONTHS_LEAP == <<0, 31, 60, 91, 121, 152, 182, 213, 244, 274, 305, 335>>

time_to_timestamp(year, month, day, hour, minute, second) ==
    I64Add(seconds_until_start_of_year(year),
           I64(60 * 60 * 24 * (IF is_leap(year) THEN MONTHS_LEAP[month]
                               ELSE MONTHS_NON_LEAP[month])
               + 60 * 60 * 24 * (day - 1)
               + 60 * 60 * hour
               + 60 * minute
               + second))

\* HourOf that takes noon for TimeSpec::Zero.
HourOf_ZeroAsNoon(spec) == IF spec.tag = "Zero" THEN 12 ELSE spec.h

\* The hour, minute and second that to_timestamp reads from a TimeSpec.
HourOf(spec) == IF spec.tag = "Zero" THEN 0 ELSE spec.h
MinuteOf(spec) ==
    IF spec.tag \in {"HoursMinutes", "HoursMinutesSeconds"} THEN spec.m ELSE 0
SecondOf(spec) == IF spec.tag = "HoursMinutesSeconds" THEN spec.s ELSE 0

\* TimeAdjust that takes standard time for wall-clock time.
TimeAdjust_StandardAsWall(type, utc_offset, dst_offset) ==
    IF type = "UTC" THEN 0 ELSE utc_offset + dst_offset

\* The match on time.1 at the end of to_timestamp.
TimeAdjust(type, utc_offset, dst_offset) ==
    IF type = "UTC" THEN 0
    ELSE IF type = "Standard" THEN utc_offset
    ELSE utc_offset + dst_offset

\* time_to_timestamp(y, m as i8, wd, hour, minute, second) - adjust, with
\* (m, wd) what to_concrete_day gave.
StampOn(date, y, hour, minute, second, adjust) ==
    IF date.tag = "Returned"
    THEN Returned(I64Sub(time_to_timestamp(y, date.val[1], date.val[2],
                                           hour, minute, second),
                         I64(adjust)))
    ELSE date

\* The arms of the match of to_timestamp, y being the number of the year.
StampOfYear(self, y, utc_offset, dst_offset) ==
    IF self.tag = "UntilYear"
    THEN Returned(I64Sub(time_to_timestamp(y, 1, 1, 0, 0, 0),
                         I64(utc_offset + dst_offset)))
    ELSE IF self.tag = "UntilMonth"
    THEN Returned(I64Sub(time_to_timestamp(y, self.month, 1, 0, 0, 0),
                         I64(utc_offset + dst_offset)))
    ELSE IF self.tag = "UntilDay"
    THEN StampOn(DaySpec_to_concrete_day(self.day, y, self.month), y, 0, 0, 0,
                 utc_offset + dst_offset)
    ELSE StampOn(DaySpec_to_concrete_day(self.day, y, self.month), y,
                 HourOf(self.time.spec), MinuteOf(self.time.spec),
                 SecondOf(self.time.spec),
                 TimeAdjust(self.time.type, utc_offset, dst_offset))

\* to_timestamp that takes the epoch for a year that is no number.
ChangeTime_to_timestamp_AnyYear(self, utc_offset, dst_offset) ==
    StampOfYear(self, IF self.year.tag = "Number" THEN self.year.n ELSE 1970,
                utc_offset, dst_offset)

ChangeTime_to_timestamp(self, utc_offset, dst_offset) ==
    IF self.year.tag = "Number"
    THEN StampOfYear(self, self.year.n, utc_offset, dst_offset)
    ELSE Panic("internal error: entered unreachable code")

---------------------------------------------------------------------------
(* Record parsers *)

\* ZoneInfoState: the state reached and the fields collected so far.
ZoneInfoState_Start ==
    [st |-> "Start", offset |-> None, saving |-> None, format |-> None,
     year |-> None, month |-> None, day |-> None, time |-> None]

ZoneInfo(offset, saving, format, time) ==
    [utc_offset |-> offset, saving |-> saving, format |-> format, time |-> time]

\* ZoneInfoTime that drops the last column read.
ZoneInfoTime_Coarser(state) ==
    IF state.st \in {"Year", "Month"} THEN None
    ELSE IF state.st = "Day" THEN Some(ChangeTime_UntilYear(state.year))
    ELSE IF state.st = "Time"
    THEN Some(ChangeTime_UntilMonth(state.year, state.month))
    ELSE Some(ChangeTime_UntilDay(state.year, state.month, state.day))

\* The `time` of the ZoneInfo built from a state past the FORMAT column.
ZoneInfoTime(state) ==
    IF state.st = "Year" THEN None
    ELSE IF state.st = "Month" THEN Some(ChangeTime_UntilYear(state.year))
    ELSE IF state.st = "Day"
    THEN Some(ChangeTime_UntilMonth(state.year, state.month))
    ELSE IF state.st = "Time"
    THEN Some(ChangeTime_UntilDay(state.year, state.month, state.day))
    ELSE Some(ChangeTime_UntilTime(state.year, state.month, state.day,
                                   state.time))

\* ZoneInfoFinish that accepts a line ending before its FORMAT column.
ZoneInfoFinish_Partial(state) ==
    IF state.st \in {"Start", "Save"} THEN ErrNoText("NotParsedAsZoneLine")
    ELSE Ok(ZoneInfo(state.offset, state.saving, state.format,
                     IF state.st = "Format" THEN None ELSE ZoneInfoTime(state)))

\* The match after the loop of ZoneInfo::from_iter, and the return in it.
ZoneInfoFinish(state) ==
    IF state.st \in {"Start", "Save", "Format"}
    THEN ErrNoText("NotParsedAsZoneLine")
    ELSE Ok(ZoneInfo(state.offset, state.saving, state.format,
                     ZoneInfoTime(state)))

\* The match in the loop of ZoneInfo::from_iter: the next state, "Returned"
\* when the function returns at this column, or the error of the column.
ZoneInfoStep(state, part) ==
    IF state.st = "Start"
    THEN MapOk(TimeSpec_from_str(part),
               LAMBDA v : [state EXCEPT !.st = "Save", !.offset = v])
    ELSE IF state.st = "Save"
    THEN MapOk(Saving_from_str(part),
               LAMBDA v : [state EXCEPT !.st = "Format", !.saving = v])
    ELSE IF state.st = "Format"
    THEN Ok([state EXCEPT !.st = "Year", !.format = part])
    ELSE IF state.st = "Year"
    THEN MapOk(Year_from_str(part),
               LAMBDA v : [state EXCEPT !.st = "Month", !.year = v])
    ELSE IF state.st = "Month"
    THEN MapOk(Month_from_str(part),
               LAMBDA v : [state EXCEPT !.st = "Day", !.month = v])
    ELSE IF state.st = "Day"
    THEN MapOk(DaySpec_from_str(part),
               LAMBDA v : [state EXCEPT !.st = "Time", !.day = v])
    ELSE MapOk(TimeSpecAndType_from_str(part),
               LAMBDA v : [state EXCEPT !.st = "Returned", !.time = v])

\* The loop of ZoneInfo::from_iter.
RECURSIVE ZoneInfoFold(_, _)
ZoneInfoFold(state, parts) ==
    IF parts = <<>> \/ starts_with(Head(parts), Hash)
    THEN ZoneInfoFinish(state)
    ELSE AndThen(ZoneInfoStep(state, Head(parts)), LAMBDA next :
            IF next.st = "Returned" THEN ZoneInfoFinish(next)
            ELSE ZoneInfoFold(next, Tail(parts)))

ZoneInfo_from_iter(iter) == ZoneInfoFold(ZoneInfoState_Start, iter)

\* What the TYPE column of a Rule line may hold.
TypeHyphens_AsciiOnly == {Hyphen}

TypeHyphens == {Hyphen, <<UHyphen>>}

\* RuleState: the state reached and the fields collected so far.
RuleState_Start ==
    [st |-> "Start", name |-> None, from_year |-> None, to_year |-> None,
     month |-> None, day |-> None, time |-> None, time_to_add |-> None,
     letters |-> None]

\* Rule with the FROM and TO columns exchanged.
Rule_YearsSwapped(state) ==
    [name |-> state.name, from_year |-> state.to_year,
     to_year |-> state.from_year, month |-> state.month, day |-> state.day,
     time |-> state.time, time_to_add |-> state.time_to_add,
     letters |-> state.letters]

Rule(state) ==
    [name |-> state.name, from_year |-> state.from_year,
     to_year |-> state.to_year, month |-> state.month, day |-> state.day,
     time |-> state.time, time_to_add |-> state.time_to_add,
     letters |-> state.letters]

\* The match in the loop of Rule::from_str: the next state, "Returned" when
\* the function returns the Rule at this column, or the error returned.
RuleStep(state, part) ==
    IF state.st = "Start"
    THEN IF part = KwRule THEN Ok([state EXCEPT !.st = "Name"])
         ELSE ErrNoText("NotParsedAsRuleLine")
    ELSE IF state.st = "Name"
    THEN Ok([state EXCEPT !.st = "FromYear", !.name = part])
    ELSE IF state.st = "FromYear"
    THEN MapOk(Year_from_str(part),
               LAMBDA v : [state EXCEPT !.st = "ToYear", !.from_year = v])
    ELSE IF state.st = "ToYear"
    THEN IF part = KwOnly
         THEN Ok([state EXCEPT !.st = "Type", !.to_year = None])
         ELSE MapOk(Year_from_str(part),
                    LAMBDA v : [state EXCEPT !.st = "Type", !.to_year = Some(v)])
    ELSE IF state.st = "Type"
    THEN IF part \in TypeHyphens
         THEN Ok([state EXCEPT !.st = "Month"])
         ELSE Err("TypeColumnContainedNonHyphen", part)
    ELSE IF state.st = "Month"
    THEN MapOk(Month_from_str(part),
               LAMBDA v : [state EXCEPT !.st = "Day", !.month = v])
    ELSE IF state.st = "Day"
    THEN MapOk(DaySpec_from_str(part),
               LAMBDA v : [state EXCEPT !.st = "Time", !.day = v])
    ELSE IF state.st = "Time"
    THEN MapOk(TimeSpecAndType_from_str(part),
               LAMBDA v : [state EXCEPT !.st = "TimeToAdd", !.time = v])
    ELSE IF state.st = "TimeToAdd"
    THEN MapOk(TimeSpec_from_str(part),
               LAMBDA v : [state EXCEPT !.st = "Letters", !.time_to_add = v])
    ELSE Ok([state EXCEPT !.st = "Returned",
                          !.letters = IF part = Hyphen THEN None ELSE Some(part)])

\* The loop of Rule::from_str, and the error after it.
RECURSIVE RuleFold(_, _)
RuleFold(state, parts) ==
    IF parts = <<>> THEN ErrNoText("NotParsedAsRuleLine")
    ELSE IF starts_with(Head(parts), Hash) THEN RuleFold(state, Tail(parts))
    ELSE AndThen(RuleStep(state, Head(parts)), LAMBDA next :
            IF next.st = "Returned" THEN Ok(Rule(next))
            ELSE RuleFold(next, Tail(parts)))

Rule_from_str(input) == RuleFold(RuleState_Start, split_ascii_whitespace(input))

\* ZoneOfParts that reports any failure of the body as NotParsedAsZoneLine.
ZoneOfParts_HidesError(iter) ==
    IF iter = <<>> \/ Head(iter) # KwZone THEN ErrNoText("NotParsedAsZoneLine")
    ELSE IF Len(iter) < 2 THEN ErrNoText("NotParsedAsZoneLine")
    ELSE IF IsErr(ZoneInfo_from_iter(SubSeq(iter, 3, Len(iter))))
    THEN ErrNoText("NotParsedAsZoneLine")
    ELSE MapOk(ZoneInfo_from_iter(SubSeq(iter, 3, Len(iter))),
               LAMBDA info : [name |-> iter[2], info |-> info])

\* Zone::from_str on the columns of its input.
ZoneOfParts(iter) ==
    IF iter = <<>> \/ Head(iter) # KwZone THEN ErrNoText("NotParsedAsZoneLine")
    ELSE IF Len(iter) < 2 THEN ErrNoText("NotParsedAsZoneLine")
    ELSE MapOk(ZoneInfo_from_iter(SubSeq(iter, 3, Len(iter))),
               LAMBDA info : [name |-> iter[2], info |-> info])

Zone_from_str(input) == ZoneOfParts(split_ascii_whitespace(input))

\* Link::from_str on the columns of its input.
\* LinkOfParts that fails on a line with more than its three columns.
LinkOfParts_NoTrailing(iter) ==
    IF iter = <<>> \/ Head(iter) # KwLink THEN ErrNoText("NotParsedAsLinkLine")
    ELSE IF Len(iter) # 3 THEN ErrNoText("NotParsedAsLinkLine")
    ELSE Ok([existing |-> iter[2], new |-> iter[3]])

LinkOfParts(iter) ==
    IF iter = <<>> \/ Head(iter) # KwLink THEN ErrNoText("NotParsedAsLinkLine")
    ELSE IF Len(iter) < 3 THEN ErrNoText("NotParsedAsLinkLine")
    ELSE Ok([existing |-> iter[2], new |-> iter[3]])

Link_from_str(input) == LinkOfParts(split_ascii_whitespace(input))

---------------------------------------------------------------------------
(* The line classifier *)

Line_Space == [tag |-> "Space"]
Line_Zone(z) == [tag |-> "Zone", zone |-> z]
Line_Continuation(zi) == [tag |-> "Continuation", info |-> zi]
Line_Rule(r) == [tag |-> "Rule", rule |-> r]
Line_Link(l) == [tag |-> "Link", link |-> l]

\* Line::new after the comment is cut off.
LineOfInput(input) ==
    IF trim(input) = <<>> THEN Ok(Line_Space)
    ELSE IF starts_with(input, KwZone) THEN MapOk(Zone_from_str(input), Line_Zone)
    ELSE IF input[1] \in LeadChars
    THEN MapOk(ZoneInfo_from_iter(split_ascii_whitespace(input)),
               Line_Continuation)
    ELSE IF starts_with(input, KwRule) THEN MapOk(Rule_from_str(input), Line_Rule)
    ELSE IF starts_with(input, KwLink) THEN MapOk(Link_from_str(input), Line_Link)
    ELSE Err("InvalidLineType", input)

\* Line::new without the cut at the comment.
Line_new_KeepsComment(input) == LineOfInput(input)

Line_new(input) == LineOfInput(BeforeHash(input))

---------------------------------------------------------------------------
(* The input lines *)

\* How many columns are appended to a complete line.
MaxExtra == 1

Strs(names) == {S(n) : n \in names}

\* A well-formed line of each kind, column by column (the module's examples).
RuleBase ==
    <<S("Rule"), S("US"), S("1967"), S("1973"), S("-"), S("Apr"),
      S("lastSun"), S("2:00"), S("1:00"), S("D")>>
ZoneBase ==
    <<S("Zone"), S("Australia/Adelaide"), S("9:30"), S("Aus"), S("AC%sT"),
      S("1971"), S("Oct"), S("31"), S("2:00:00")>>
LinkBase == <<S("Link"), S("Europe/Istanbul"), S("Asia/Istanbul")>>

\* Other texts for each kind of column, well-formed and not.
KeywordAlts == Strs({"Rules", "Zonex", "LinkLink", "GOLB", "rule", "Link"})
YearAlts == Strs({"min", "Maximum", "X19", "-5", "99999999999999999999"})
MonthAlts == Strs({"october", "Febtober", "4"})
DayAlts ==
    Strs({"Sun>=1", "Fri<=25", "10", "128", "lastFoo", "lastmonday",
          "Sun>=200", "Son>=1", "Sun>1", "Sun>=x"}) \cup {<<UHyphen, ">", "=", "1">>}
AtAlts ==
    Strs({"-", "1:00u", "2:00s", "1:0s", "-1:30", "24g", "w", "1:00:00:00",
          "2:60X"})
TimeAlts == Strs({"0", "-", "x", "1:0", "-0:01:15", "128"})
SavingAlts == Strs({"-", "1:00", "C-Eur", "1:x", "-1"})

RuleAlts ==
    <<KeywordAlts, Strs({"-"}), YearAlts, YearAlts \cup Strs({"only", "Only"}),
      {<<UHyphen>>} \cup Strs({"HEY", "--"}), MonthAlts, DayAlts, AtAlts,
      TimeAlts, Strs({"-"})>>
ZoneAlts ==
    <<KeywordAlts, Strs({"-"}), TimeAlts, SavingAlts, Strs({"-", "1971"}),
      YearAlts, MonthAlts, DayAlts, AtAlts>>
LinkAlts == <<KeywordAlts, Strs({"Zone"}), Strs({"-"})>>

ExtraTokens == Strs({"junk", "1:00"})

\* The lines that differ from base in at most one column.
OneChanged(base, alts) ==
    {base} \cup
    UNION {{[base EXCEPT ![i] = a] : a \in alts[i]} : i \in DOMAIN base}

\* The lines that differ from base in at most two columns.
TwoChanged(base, alts) ==
    UNION {OneChanged(b, alts) : b \in OneChanged(base, alts)}

Prefixes(lines) == UNION {{SubSeq(l, 1, n) : n \in 0..Len(l)} : l \in lines}

\* A line followed by up to n more columns.
RECURSIVE WithExtra(_, _)
WithExtra(lines, n) ==
    IF n = 0 THEN lines
    ELSE lines \cup WithExtra({Append(l, e) : l \in lines, e \in ExtraTokens}, n - 1)

RuleLines ==
    Prefixes(TwoChanged(RuleBase, RuleAlts))
        \cup WithExtra(OneChanged(RuleBase, RuleAlts), MaxExtra)
ZoneLines ==
    Prefixes(TwoChanged(ZoneBase, ZoneAlts))
        \cup WithExtra(OneChanged(ZoneBase, ZoneAlts), MaxExtra)
LinkLines ==
    Prefixes(TwoChanged(LinkBase, LinkAlts))
        \cup WithExtra(OneChanged(LinkBase, LinkAlts), MaxExtra)
\* A continuation line's columns: those of a Zone line after its name.
BodyLines == {SubSeq(l, 3, Len(l)) : l \in {z \in ZoneLines : Len(z) >= 2}}

Leads == {<<>>, S(" "), S("\t ")}
Tails == {<<>>, S(" \t"), S("#c"), S(" # c ## Zone")}
Separator == S(" \t")

\* The text of a line: its columns, separated by whitespace, between lead and
\* tail.
RECURSIVE Join(_)
Join(ts) ==
    IF ts = <<>> THEN <<>>
    ELSE IF Len(ts) = 1 THEN ts[1]
    ELSE ts[1] \o Separator \o Join(Tail(ts))

Text(l, ts, t) == l \o Join(ts) \o t

\* The inputs of Line::new, as <<lead, columns, tail>>: every line above
\* unindented, every body indented, and the lines with at most one changed
\* column under every lead and tail.
SimpleLines ==
    LET full == Prefixes(OneChanged(RuleBase, RuleAlts))
                    \cup Prefixes(OneChanged(ZoneBase, ZoneAlts))
                    \cup Prefixes(OneChanged(LinkBase, LinkAlts))
    IN  full \cup {SubSeq(l, 3, Len(l)) : l \in Prefixes(OneChanged(ZoneBase, ZoneAlts))}

Inputs ==
    ({<<>>} \X (RuleLines \cup ZoneLines \cup LinkLines) \X {<<>>})
        \cup ((Leads \ {<<>>}) \X BodyLines \X {<<>>})
        \cup (Leads \X SimpleLines \X Tails)

---------------------------------------------------------------------------
(* Specification of the line classifier: Line::new applied to each input *)

InitLine ==
    /\ \E in \in Inputs : lead = in[1] /\ toks = in[2] /\ tail = in[3]
    /\ result = NotCalled
    /\ argYear = 1970 /\ argMonth = 1 /\ argDay = 1 /\ weekday = NotCalled
    /\ call = NoCall /\ ret = NotCalled

LineNew ==
    /\ result = NotCalled
    /\ result' = Line_new(Text(lead, toks, tail))
    /\ UNCHANGED <<lead, toks, tail, calVars, callVars>>

NextLine == LineNew

Spec == InitLine /\ [][NextLine]_vars

---------------------------------------------------------------------------
(* Specification of the calendar: Weekday::calculate applied to each date *)

\* How many years on each side of a centre are taken.
YearSpan == 2

\* Years around the turns of the era and of its centuries, and around the
\* dates of tests::weekdays.
YearCentres == {-400, -100, 0, 1970, 2016}
CalYears == UNION {(c - YearSpan)..(c + YearSpan) : c \in YearCentres}

InitCal ==
    /\ lead = <<>> /\ toks = <<>> /\ tail = <<>> /\ result = NotCalled
    /\ argYear \in CalYears
    /\ argMonth \in 1..12
    /\ argDay \in 1..Month_length(argMonth, is_leap(argYear))
    /\ weekday = NotCalled
    /\ call = NoCall /\ ret = NotCalled

Calculate ==
    /\ weekday = NotCalled
    /\ weekday' = Weekday_calculate(argYear, argMonth, argDay)
    /\ UNCHANGED <<lineVars, argYear, argMonth, argDay, callVars>>

NextCal == Calculate

SpecCal == InitCal /\ [][NextCal]_vars

---------------------------------------------------------------------------
(* Specification of the leap years: is_leap applied to each year *)

\* The years taken on each side of year 0.
LeapYearSpan == 410

\* The state of the other specifications' variables, which stay as they are.
IdleLine == lead = <<>> /\ toks = <<>> /\ tail = <<>> /\ result = NotCalled
IdleCal == argYear = 1970 /\ argMonth = 1 /\ argDay = 1 /\ weekday = NotCalled

InitLeap ==
    /\ IdleLine /\ IdleCal
    /\ call \in {[fn |-> "is_leap", year |-> y] :
                    y \in (-LeapYearSpan)..LeapYearSpan}
    /\ ret = NotCalled

IsLeap ==
    /\ ret = NotCalled
    /\ call.fn = "is_leap"
    /\ ret' = Returned(is_leap(call.year))
    /\ UNCHANGED <<lineVars, calVars, call>>

NextLeap == IsLeap

SpecLeap == InitLeap /\ [][NextLeap]_vars

---------------------------------------------------------------------------
(* Specification of the days: DaySpec::to_concrete_day applied to each day *)
(* specification, year and month                                           *)

\* The largest day number of a day specification.
MaxDayNumber == 32

\* Years before and after year 1, leap years and others, and those of
\* tests::last_monday and tests::first_sunday_in_toronto.
DayYears == {-1, 0, 1, 4, 1900, 1932, 2000, 2016}

DaySpecs ==
    {DaySpec_Last(Weekdays[w]) : w \in 1..7}
        \cup {DaySpec_Ordinal(n) : n \in 0..MaxDayNumber}
        \cup {DaySpec_FirstOnOrAfter(Weekdays[w], n) :
                    w \in 1..7, n \in 0..MaxDayNumber}
        \cup {DaySpec_LastOnOrBefore(Weekdays[w], n) :
                    w \in 1..7, n \in 0..MaxDayNumber}

InitDay ==
    /\ IdleLine /\ IdleCal
    /\ call \in {[fn |-> "to_concrete_day", self |-> d, year |-> y, month |-> m] :
                    d \in DaySpecs, y \in DayYears, m \in 1..12}
    /\ ret = NotCalled

ToConcreteDay ==
    /\ ret = NotCalled
    /\ call.fn = "to_concrete_day"
    /\ ret' = DaySpec_to_concrete_day(call.self, call.year, call.month)
    /\ UNCHANGED <<lineVars, calVars, call>>

NextDay == ToConcreteDay

SpecDay == InitDay /\ [][NextDay]_vars

---------------------------------------------------------------------------
(* Specification of the timestamps: ChangeTime::to_timestamp applied to each *)
(* change time and pair of offsets                                          *)

\* The years taken on each side of 1970.
StampYearSpan == 75

StampYears == (1970 - StampYearSpan)..(1970 + StampYearSpan)

\* The years, months, day specifications and times of the change times that
\* go below the year: those of tests::to_timestamp and others.
StampDateYears == {Year_Number(1969), Year_Number(1970), Year_Number(2016),
                   Year_Minimum, Year_Maximum}
StampMonths == {1, 2, 3, 12}
StampDays ==
    {DaySpec_Ordinal(1), DaySpec_Ordinal(29), DaySpec_Last("Sunday"),
     DaySpec_FirstOnOrAfter("Sunday", 1), DaySpec_LastOnOrBefore("Friday", 25),
     DaySpec_FirstOnOrAfter("Monday", 29)}
StampTimes ==
    {TimeSpecAndType(TimeSpec_Zero, "Wall"),
     TimeSpecAndType(TimeSpec_Hours(2), "Standard"),
     TimeSpecAndType(TimeSpec_HoursMinutes(2, 30), "UTC"),
     TimeSpecAndType(TimeSpec_HoursMinutesSeconds(23, 59, 59), "Wall"),
     TimeSpecAndType(TimeSpec_Hours(24), "UTC")}

ChangeTimes ==
    {ChangeTime_UntilYear(Year_Number(y)) : y \in StampYears}
        \cup {ChangeTime_UntilYear(y) : y \in StampDateYears}
        \cup {ChangeTime_UntilMonth(y, m) : y \in StampDateYears, m \in StampMonths}
        \cup {ChangeTime_UntilDay(y, m, d) :
                    y \in StampDateYears, m \in StampMonths, d \in StampDays}
        \cup {ChangeTime_UntilTime(y, m, d, t) :
                    y \in StampDateYears, m \in StampMonths, d \in StampDays,
                    t \in StampTimes}

\* UTC offsets (0, 9:30, -5:00) and DST offsets (0, 1:00), in seconds.
UtcOffsets == {0, 34200, -18000}
DstOffsets == {0, 3600}

InitStamp ==
    /\ IdleLine /\ IdleCal
    /\ call \in {[fn |-> "to_timestamp", self |-> c, utc_offset |-> u,
                    dst_offset |-> d] :
                    c \in ChangeTimes, u \in UtcOffsets, d \in DstOffsets}
    /\ ret = NotCalled

ToTimestamp ==
    /\ ret = NotCalled
    /\ call.fn = "to_timestamp"
    /\ ret' = ChangeTime_to_timestamp(call.self, call.utc_offset, call.dst_offset)
    /\ UNCHANGED <<lineVars, calVars, call>>

NextStamp == ToTimestamp

SpecStamp == InitStamp /\ [][NextStamp]_vars

---------------------------------------------------------------------------
(* Specification of the until-times: Line::new applied to a Zone or          *)
(* continuation line, then ChangeTime::to_timestamp applied to the `time`   *)
(* of the ZoneInfo it gave                                                  *)

\* The texts of the UNTIL year column.
UntilYears ==
    Strs({"min", "minimum", "max", "maximum", "MIN", "Max", "1971", "2016"})

\* The Zone lines: the line of tests::zone with each UNTIL year, at most one
\* other column changed, cut after each column.
UntilLines ==
    UNION {Prefixes(OneChanged([ZoneBase EXCEPT ![6] = y], ZoneAlts)) :
                y \in UntilYears}

InitUntil ==
    /\ \/ /\ lead = <<>> /\ toks \in UntilLines
       \/ /\ lead = S(" ")
          /\ toks \in {SubSeq(l, 3, Len(l)) : l \in {z \in UntilLines : Len(z) >= 2}}
    /\ tail = <<>>
    /\ result = NotCalled
    /\ IdleCal
    /\ call = NoCall /\ ret = NotCalled

\* The caller's step between the two: it takes the `time` of the ZoneInfo
\* of the parsed line, if there is one, and offsets to resolve it with.
TakeUntil ==
    /\ call = NoCall
    /\ IsOk(result)
    /\ result.val.tag \in {"Zone", "Continuation"}
    /\ \E u \in UtcOffsets, d \in DstOffsets :
          LET info == IF result.val.tag = "Zone" THEN result.val.zone.info
                      ELSE result.val.info
          IN  /\ info.time # None
              /\ call' = [fn |-> "to_timestamp", self |-> info.time.val,
                          utc_offset |-> u, dst_offset |-> d]
    /\ UNCHANGED <<lineVars, calVars, ret>>

NextUntil == LineNew \/ TakeUntil \/ ToTimestamp

SpecUntil == InitUntil /\ [][NextUntil]_vars

---------------------------------------------------------------------------
(* Specification of the field parsers: TimeSpec::from_str, then             *)
(* TimeSpec::as_seconds on what it gave, TimeSpecAndType::from_str and      *)
(* DaySpec::from_str, applied to each token                                 *)

\* The texts of the hours, minutes and seconds of a time.
HourTexts == Strs({"0", "1", "9", "24", "127", "128", "00", "007", "+5", ""})
MinuteTexts == Strs({"00", "01", "30", "59", "99", "5", "-5", "+5", "100", ""})
SecondTexts == Strs({"00", "15", "60", "7", "-9"})

\* H, H:MM and H:MM:SS of these texts.
ClockTexts ==
    HourTexts
        \cup {h \o S(":") \o m : h \in HourTexts, m \in MinuteTexts}
        \cup {h \o S(":") \o m \o S(":") \o sec :
                    h \in HourTexts, m \in MinuteTexts, sec \in SecondTexts}

\* The tokens of a time: each text as it is and after a hyphen, with
\* nothing or a letter after it, and some that are no time.
TimeTokens ==
    {sign \o t \o suffix :
        sign \in {<<>>, Hyphen}, t \in ClockTexts,
        suffix \in Strs({"", "w", "s", "u", "g", "z", "x", "W"})}
        \cup Strs({"--1", "1-", "1:30:15:00", "1:30:15:", "w1", "1ws", "-:",
                   "1:3-", "1:30-", "--", "1-s", "2:00:00ss"})
        \cup {<<UHyphen>>, S("1") \o <<UHyphen>>, <<UHyphen>> \o S("s")}

\* The tokens of a day: numbers, "last" before a weekday, a weekday before
\* a comparison and a number, and some that are none of these.
DayNumberTexts ==
    Strs({"1", "8", "25", "31", "07", "0", "99", "100", "127", "128", "200",
          "255", "256", "", "x", "+5", "-1", "1x"})
DayTokens ==
    DayNumberTexts
        \cup {KwLast \o w : w \in Strs({"Sun", "sunday", "SAT", "Xyz", "", "Su"})}
        \cup {w \o dir \o n :
                    w \in Strs({"Sun", "mon", "SAT", "Xyz", "Su>"}),
                    dir \in Strs({">=", "<=", ">", "=>", "=="}),
                    n \in DayNumberTexts}
        \cup Strs({"Lastsun", "LASTSUN", "Sunday>=1", "Sun", "Su", "lastSun>=1"})
        \cup {<<"S", UHyphen>> \o S(">=1"), S("Sun") \o <<UHyphen>> \o S("1")}

InitToken ==
    /\ IdleLine /\ IdleCal
    /\ call \in {[fn |-> f, input |-> t] :
                    f \in {"TimeSpec::from_str", "TimeSpecAndType::from_str"},
                    t \in TimeTokens}
                \cup {[fn |-> "DaySpec::from_str", input |-> t] : t \in DayTokens}
    /\ ret = NotCalled

ParseTimeSpec ==
    /\ ret = NotCalled
    /\ call.fn = "TimeSpec::from_str"
    /\ ret' = TimeSpec_from_str(call.input)
    /\ UNCHANGED <<lineVars, calVars, call>>

\* as_seconds on the TimeSpec that was parsed.
AsSeconds ==
    /\ call.fn = "TimeSpec::from_str"
    /\ IsOk(ret)
    /\ call' = [fn |-> "TimeSpec::as_seconds", input |-> call.input,
                self |-> ret.val]
    /\ ret' = Returned(TimeSpec_as_seconds(ret.val))
    /\ UNCHANGED <<lineVars, calVars>>

ParseTimeSpecAndType ==
    /\ ret = NotCalled
    /\ call.fn = "TimeSpecAndType::from_str"
    /\ ret' = TimeSpecAndType_from_str(call.input)
    /\ UNCHANGED <<lineVars, calVars, call>>

ParseDaySpec ==
    /\ ret = NotCalled
    /\ call.fn = "DaySpec::from_str"
    /\ ret' = DaySpec_from_str(call.input)
    /\ UNCHANGED <<lineVars, calVars, call>>

NextToken == ParseTimeSpec \/ AsSeconds \/ ParseTimeSpecAndType \/ ParseDaySpec

SpecToken == InitToken /\ [][NextToken]_vars

---------------------------------------------------------------------------
(* Specification of the record parsers: Rule::from_str, ZoneInfo::from_iter *)
(* and Link::from_str applied to the columns of a line, comments included   *)

\* How many columns are appended to a complete record.
MaxAppended == 2

\* Tokens that begin a comment, and tokens appended to a complete record.
CommentTokens == Strs({"#", "#c"})
AppendedTokens == Strs({"junk", "1:00", "#c", "Rule"}) \cup {<<UHyphen>>}

\* The sequences of at most n appended tokens.
RECURSIVE Appended(_)
Appended(n) ==
    IF n = 0 THEN {<<>>}
    ELSE Appended(n - 1)
            \cup {Append(a, e) : a \in Appended(n - 1), e \in AppendedTokens}

\* The columns of a line with a comment token put before column k + 1.
Inserted(l, c) ==
    {SubSeq(l, 1, k) \o <<c>> \o SubSeq(l, k + 1, Len(l)) : k \in 0..Len(l)}

\* The columns given to a record parser: those of the lines that differ
\* from base in at most one column, cut after each column, or with a
\* comment token among them, or with tokens appended.
RecordParts(base, alts) ==
    Prefixes(OneChanged(base, alts))
        \cup UNION {Inserted(l, c) :
                        l \in OneChanged(base, alts), c \in CommentTokens}
        \cup {l \o a : l \in OneChanged(base, alts), a \in Appended(MaxAppended)}

InitRecord ==
    /\ IdleLine /\ IdleCal
    /\ call \in {[fn |-> "Rule::from_str", parts |-> l] :
                    l \in RecordParts(RuleBase, RuleAlts)}
                \cup {[fn |-> "ZoneInfo::from_iter", parts |-> SubSeq(l, 3, Len(l))] :
                        l \in {z \in RecordParts(ZoneBase, ZoneAlts) : Len(z) >= 2}}
                \cup {[fn |-> "Link::from_str", parts |-> l] :
                        l \in RecordParts(LinkBase, LinkAlts)}
    /\ ret = NotCalled

ParseRule ==
    /\ ret = NotCalled
    /\ call.fn = "Rule::from_str"
    /\ ret' = Rule_from_str(Join(call.parts))
    /\ UNCHANGED <<lineVars, calVars, call>>

ParseZoneInfo ==
    /\ ret = NotCalled
    /\ call.fn = "ZoneInfo::from_iter"
    /\ ret' = ZoneInfo_from_iter(call.parts)
    /\ UNCHANGED <<lineVars, calVars, call>>

ParseLink ==
    /\ ret = NotCalled
    /\ call.fn = "Link::from_str"
    /\ ret' = Link_from_str(Join(call.parts))
    /\ UNCHANGED <<lineVars, calVars, call>>

NextRecord == ParseRule \/ ParseZoneInfo \/ ParseLink

SpecRecord == InitRecord /\ [][NextRecord]_vars

---------------------------------------------------------------------------
(* Specification of the dates: Weekday::calculate and                       *)
(* ChangeTime::to_timestamp applied to the same date                        *)

\* Years from 1 on: the first, leap years and others, ends of centuries,
\* years before and after 1970.
DateYears == {1, 4, 100, 400, 1900, 1969, 1970, 1972, 2000, 2016, 2100}

InitDate ==
    /\ IdleLine
    /\ argYear \in DateYears
    /\ argMonth \in 1..12
    /\ argDay \in 1..Month_length(argMonth, is_leap(argYear))
    /\ weekday = NotCalled
    /\ call = [fn |-> "to_timestamp",
               self |-> ChangeTime_UntilDay(Year_Number(argYear), argMonth,
                                            DaySpec_Ordinal(argDay)),
               utc_offset |-> 0, dst_offset |-> 0]
    /\ ret = NotCalled

NextDate == Calculate \/ ToTimestamp

SpecDate == InitDate /\ [][NextDate]_vars

---------------------------------------------------------------------------
(* Properties of Line::new *)

\* The line given to Line::new, its text before the first '#', and the
\* columns of that text.
Line == Text(lead, toks, tail)
Input == BeforeHash(Line)
Columns == split_ascii_whitespace(Input)

Called == result # NotCalled
Blank == \A i \in 1..Len(Input) : Input[i] \in AsciiWhitespace
Indented == Input # <<>> /\ Input[1] \in {" ", "\t"}
Keywords == {KwZone, KwRule, KwLink}

\* A line that is neither blank nor indented, so that it begins with its
\* first column.
Unindented == ~Blank /\ ~Indented

\* Whether the text of column i of a Rule line is one its parser accepts.
RuleColumnOk(i, col) ==
    CASE i = 1 -> col = KwRule
      [] i = 3 -> IsOk(Year_from_str(col))
      [] i = 4 -> col = KwOnly \/ IsOk(Year_from_str(col))
      [] i = 5 -> col \in {Hyphen, <<UHyphen>>}
      [] i = 6 -> IsOk(Month_from_str(col))
      [] i = 7 -> IsOk(DaySpec_from_str(col))
      [] i = 8 -> IsOk(TimeSpecAndType_from_str(col))
      [] i = 9 -> IsOk(TimeSpec_from_str(col))
      [] OTHER -> TRUE

\* Whether the text of column i of a Zone body (the columns after the name,
\* or those of a continuation line) is one its parser accepts.
BodyColumnOk(i, col) ==
    CASE i = 1 -> IsOk(TimeSpec_from_str(col))
      [] i = 2 -> IsOk(Saving_from_str(col))
      [] i = 4 -> IsOk(Year_from_str(col))
      [] i = 5 -> IsOk(Month_from_str(col))
      [] i = 6 -> IsOk(DaySpec_from_str(col))
      [] i = 7 -> IsOk(TimeSpecAndType_from_str(col))
      [] OTHER -> TRUE

RuleColumnsOk(cols) == \A i \in DOMAIN cols : RuleColumnOk(i, cols[i])
BodyColumnsOk(cols) == \A i \in DOMAIN cols : BodyColumnOk(i, cols[i])

IsRuleLine == Unindented /\ Columns[1] = KwRule
IsZoneLine == Unindented /\ Columns[1] = KwZone
IsLinkLine == Unindented /\ Columns[1] = KwLink
IsContinuationLine == ~Blank /\ Indented

\* The columns of a Zone line after its name, or of a continuation line.
Body == IF IsZoneLine THEN SubSeq(Columns, 3, Len(Columns)) ELSE Columns

C2_Space == Called => (result = Ok(Line_Space) <=> Blank)

\* A line of whitespace and then a comment holding further '#' is Space.
C2_Witness ==
    /\ Called /\ Blank /\ Input # <<>>
    /\ \E i, j \in 1..Len(Line) : i < j /\ Line[i] = "#" /\ Line[j] = "#"
    /\ result = Ok(Line_Space)

C4_RuleFields ==
    (Called /\ IsRuleLine /\ Len(Columns) = 10 /\ RuleColumnsOk(Columns)) =>
        result = Ok(Line_Rule(
            [name |-> Columns[2],
             from_year |-> Year_from_str(Columns[3]).val,
             to_year |-> IF Columns[4] = KwOnly THEN None
                         ELSE Some(Year_from_str(Columns[4]).val),
             month |-> Month_from_str(Columns[6]).val,
             day |-> DaySpec_from_str(Columns[7]).val,
             time |-> TimeSpecAndType_from_str(Columns[8]).val,
             time_to_add |-> TimeSpec_from_str(Columns[9]).val,
             letters |-> IF Columns[10] = Hyphen THEN None
                         ELSE Some(Columns[10])]))

\* A Rule line with "only" for TO and one with a year for TO are both parsed.
C4_Witness ==
    /\ Called /\ IsRuleLine /\ Len(Columns) = 10 /\ RuleColumnsOk(Columns)
    /\ IsOk(result) /\ result.val.tag = "Rule"
    /\ result.val.rule.to_year = None
    /\ result.val.rule.from_year = Year_Maximum
    /\ result.val.rule.letters # None

\* The precision of the until-time of a ZoneInfo.
Precision(info) == IF info.time = None THEN "None" ELSE info.time.val.tag
PrecisionOf == <<"None", "UntilYear", "UntilMonth", "UntilDay", "UntilTime">>

\* The ZoneInfo of a parsed Zone or continuation line.
InfoOf(line) ==
    IF line.tag = "Zone" THEN line.zone.info ELSE line.info

\* C5: for a Zone or continuation line of valid columns, the number k of
\* columns after FORMAT fixes the precision of the until-time (None,
\* UntilYear, UntilMonth, UntilDay, UntilTime for k = 0..4), and the same body
\* gives the same ZoneInfo on a Zone line and on a continuation line.
C5_Precision ==
    (/\ Called
     /\ IsZoneLine \/ IsContinuationLine
     /\ Len(Body) \in 3..7 /\ BodyColumnsOk(Body)
     /\ IsZoneLine => Len(Columns) >= 2) =>
        /\ IsOk(result)
        /\ Precision(InfoOf(result.val)) = PrecisionOf[Len(Body) - 2]
        /\ Line_new(S(" ") \o Join(Body))
              = Ok(Line_Continuation(InfoOf(result.val)))
        /\ Line_new(S("Zone X ") \o Join(Body))
              = Ok(Line_Zone([name |-> S("X"), info |-> InfoOf(result.val)]))

\* A Zone line with a year and a month after FORMAT is parsed to UntilMonth.
C5_Witness ==
    /\ Called /\ IsZoneLine /\ Len(Body) = 5 /\ BodyColumnsOk(Body)
    /\ IsOk(result) /\ result.val.tag = "Zone"
    /\ Precision(result.val.zone.info) = "UntilMonth"

\* C6: in a Rule line with valid NAME, FROM and TO, a TYPE column that is
\* neither "-" nor U+2010 fails with TypeColumnContainedNonHyphen carrying
\* the column, whatever follows; with either hyphen the month column is
\* parsed next.
C6_TypeColumn ==
    (/\ Called /\ IsRuleLine /\ Len(Columns) >= 5
     /\ RuleColumnsOk(SubSeq(Columns, 1, 4))) =>
        IF Columns[5] \notin {Hyphen, <<UHyphen>>}
        THEN result = Err("TypeColumnContainedNonHyphen", Columns[5])
        ELSE /\ ~(IsErr(result) /\ result.kind = "TypeColumnContainedNonHyphen")
             /\ Len(Columns) = 5 => result = ErrNoText("NotParsedAsRuleLine")
             /\ (Len(Columns) > 5 /\ IsErr(Month_from_str(Columns[6])))
                   => result = Month_from_str(Columns[6])

\* A Rule line with a bad TYPE and a bad later column has failed on TYPE.
C6_Witness ==
    /\ Called /\ IsRuleLine /\ Len(Columns) = 10
    /\ ~RuleColumnsOk(SubSeq(Columns, 6, 10))
    /\ IsErr(result) /\ result.kind = "TypeColumnContainedNonHyphen"
    /\ result.text = Columns[5]

\* C7: a line of valid columns that ends before its parser has all it needs
\* fails, with NotParsedAsRuleLine for a Rule line of fewer than 10 columns,
\* NotParsedAsZoneLine for a Zone line without a name or a Zone or continuation
\* body of fewer than 3 columns, NotParsedAsLinkLine for a Link line of fewer
\* than 2 names.
C7_TooFewColumns ==
    Called =>
        /\ (IsRuleLine /\ Len(Columns) < 10 /\ RuleColumnsOk(Columns))
              => result = ErrNoText("NotParsedAsRuleLine")
        /\ (IsZoneLine /\ Len(Columns) = 1)
              => result = ErrNoText("NotParsedAsZoneLine")
        /\ ((IsZoneLine \/ IsContinuationLine) /\ Len(Body) < 3
                /\ BodyColumnsOk(Body))
              => result = ErrNoText("NotParsedAsZoneLine")
        /\ (IsLinkLine /\ Len(Columns) < 3)
              => result = ErrNoText("NotParsedAsLinkLine")

\* A Zone line that ends after its SAVE column has failed.
C7_Witness ==
    /\ Called /\ IsZoneLine /\ Len(Body) = 2 /\ BodyColumnsOk(Body)
    /\ result = ErrNoText("NotParsedAsZoneLine")

\* C8 as stated: Line::new never aborts.
C8_NeverPanics == ~IsPanic(result)

\* The errors of Line::new that carry the text of a column.
ColumnErrors ==
    {"FailedYearParse", "FailedMonthParse", "FailedWeekdayParse",
     "TypeColumnContainedNonHyphen", "CouldNotParseSaving", "InvalidDaySpec",
     "InvalidTimeSpecAndType"}

\* The columns with a field parser: those of a Rule line, or the body of a
\* Zone or continuation line.
Fields == IF IsRuleLine THEN Columns ELSE Body
FieldOk(i, col) ==
    IF IsRuleLine THEN RuleColumnOk(i, col) ELSE BodyColumnOk(i, col)

\* The first column that its field parser does not accept.
OffendingAt ==
    CHOOSE i \in DOMAIN Fields :
        /\ ~FieldOk(i, Fields[i])
        /\ \A j \in 1..(i - 1) : FieldOk(j, Fields[j])
Offending == Fields[OffendingAt]

\* Whether that column is one that takes a time with a time type: AT of a
\* Rule line, the until-time of a Zone body.
OffendingIsTyped == OffendingAt = IF IsRuleLine THEN 8 ELSE 7

ReturnsColumnError == Called /\ IsErr(result) /\ result.kind \in ColumnErrors

\* C9 as stated: every error that carries text carries the offending column
\* exactly as it is written in the line.
C9_AsStated == ReturnsColumnError => result.text = Offending

\* The weekday part of a day column: what follows "last", or else the first
\* three bytes.
WeekdayPart(col) ==
    IF starts_with(col, KwLast) THEN SubSeq(col, 5, Len(col))
    ELSE str_get(col, 0, 3).val

TypeSuffixes == {"w", "s", "u", "g", "z"}

\* A time column without its time-type suffix, when it has one and is not
\* made of hyphens and digits alone.
WithoutSuffix(col) ==
    IF col[Len(col)] \in TypeSuffixes
          /\ \E i \in DOMAIN col : col[i] \notin DigitSet \cup {"-"}
    THEN SubSeq(col, 1, Len(col) - 1)
    ELSE col

\* C9, amended: FailedYearParse, TypeColumnContainedNonHyphen,
\* CouldNotParseSaving and InvalidDaySpec carry the offending column exactly
\* as written; FailedMonthParse carries it in ASCII lower case;
\* FailedWeekdayParse carries the weekday part of the day column (what
\* follows "last", or else its first three bytes) in ASCII lower case;
\* InvalidTimeSpecAndType carries the column as written, but without its
\* time-type suffix when the column is AT of a Rule line or the until-time
\* of a Zone body.
C9_ErrorText ==
    ReturnsColumnError =>
        result.text =
            CASE result.kind = "FailedMonthParse" -> to_ascii_lowercase(Offending)
              [] result.kind = "FailedWeekdayParse"
                    -> to_ascii_lowercase(WeekdayPart(Offending))
              [] result.kind = "InvalidTimeSpecAndType" /\ OffendingIsTyped
                    -> WithoutSuffix(Offending)
              [] OTHER -> Offending

\* A line has failed on a month written with a capital, and the error
\* carries it in lower case.
C9_Witness ==
    /\ ReturnsColumnError /\ result.kind = "FailedMonthParse"
    /\ result.text # Offending
    /\ result.text = to_ascii_lowercase(Offending)

---------------------------------------------------------------------------
(* Properties of Weekday::calculate *)

\* The Gregorian leap years, and the days of the year before each month.
GregorianLeap(y) == y % 4 = 0 /\ (y % 100 # 0 \/ y % 400 = 0)
DaysBeforeMonth == <<0, 31, 59, 90, 120, 151, 181, 212, 243, 273, 304, 334>>

\* The number of the day y-m-d, counting 0001-01-01, a Monday, as day 1.
DayNumber(y, m, d) ==
    365 * (y - 1) + ((y - 1) \div 4) - ((y - 1) \div 100) + ((y - 1) \div 400)
        + DaysBeforeMonth[m] + (IF m > 2 /\ GregorianLeap(y) THEN 1 ELSE 0) + d

\* The day of the week of y-m-d in the proleptic Gregorian calendar.
TrueWeekday(y, m, d) == Weekdays[(DayNumber(y, m, d) % 7) + 1]

\* C10 as stated: Weekday::calculate returns the true day of the week of
\* every valid date, in negative years and year 0 as in positive years, and
\* never aborts.
C10_TrueWeekday ==
    weekday # NotCalled => weekday = Returned(TrueWeekday(argYear, argMonth, argDay))

---------------------------------------------------------------------------
(* Properties of is_leap *)

\* Whether n is a multiple of d, for the years of the specification.
Divisible(n, d) == \E k \in (-LeapYearSpan)..LeapYearSpan : n = d * k

\* C11: is_leap(year) is true exactly when year is divisible by 4 and not by
\* 100, or divisible by 400, for negative years as for positive ones.
C11_IsLeap ==
    (ret # NotCalled /\ call.fn = "is_leap") =>
        ret = Returned(/\ Divisible(call.year, 4)
                       /\ ~Divisible(call.year, 100) \/ Divisible(call.year, 400))

\* is_leap has found the leap year -400, a negative year that ends a century.
C11_Witness ==
    call.fn = "is_leap" /\ call.year = -400 /\ ret = Returned(TRUE)

---------------------------------------------------------------------------
(* Properties of DaySpec::to_concrete_day *)

\* The length of month m of year y, and the day of the week of the day that
\* has number n.
TrueLength(y, m) ==
    IF m = 12 THEN 31
    ELSE DaysBeforeMonth[m + 1] - DaysBeforeMonth[m]
            + (IF m = 2 /\ GregorianLeap(y) THEN 1 ELSE 0)
WeekdayOfNumber(n) == Weekdays[(n % 7) + 1]

\* A call of to_concrete_day on a day specification of the given kind, in a
\* year from 1 on, that is over.
ResolvedCall(kind) ==
    /\ ret # NotCalled /\ call.fn = "to_concrete_day"
    /\ call.self.tag = kind /\ call.year >= 1

\* The date, as <<month, day>>, of the day that is k days after day n of the
\* month m of year y, for a k that leads no further than the months next to
\* m; month 0 is the December before the year and month 13 the January
\* after it.
DateAfter(y, m, n, k) ==
    IF n + k > TrueLength(y, m) THEN <<m + 1, n + k - TrueLength(y, m)>>
    ELSE IF n + k < 1
    THEN <<m - 1, TrueLength(y, IF m = 1 THEN 12 ELSE m - 1) + n + k>>
    ELSE <<m, n + k>>

\* C12: for a year from 1 on, Last(w) resolves to the largest day of the
\* month that falls on w, a day among the last 7 of the month, in the month
\* asked for, and the call returns.
C12_Last ==
    ResolvedCall("Last") =>
        LET len == TrueLength(call.year, call.month)
            d == CHOOSE d \in 1..len :
                    /\ TrueWeekday(call.year, call.month, d) = call.self.weekday
                    /\ \A e \in (d + 1)..len :
                          TrueWeekday(call.year, call.month, e) # call.self.weekday
        IN  ret = Returned(<<call.month, d>>) /\ d > len - 7

\* The last Monday of February 2016 is the last day of that month, the 29th.
C12_Witness ==
    /\ ResolvedCall("Last") /\ call.self.weekday = "Monday"
    /\ call.year = 2016 /\ call.month = 2
    /\ ret = Returned(<<2, 29>>)

\* The number of days from day n of the call's month to the first day on or
\* after it (dir = 1) or the last on or before it (dir = -1) that falls on
\* the call's weekday.
DaysTo(n, dir) ==
    CHOOSE k \in 0..6 :
        /\ WeekdayOfNumber(DayNumber(call.year, call.month, n) + dir * k)
              = call.self.weekday
        /\ \A j \in 0..(k - 1) :
              WeekdayOfNumber(DayNumber(call.year, call.month, n) + dir * j)
                  # call.self.weekday

\* Whether the call's day number is a day of the call's month.
DayInMonth == call.self.day \in 1..TrueLength(call.year, call.month)

\* C13: for a year from 1 on and a day n of the month, FirstOnOrAfter(w, n)
\* resolves to the earliest date on or after n that falls on w, at most 6
\* days later, in the next month when it is past the end of the month,
\* unless that leads from December into the next year.
C13_FirstOnOrAfter ==
    (/\ ResolvedCall("FirstOnOrAfter") /\ DayInMonth
     /\ DateAfter(call.year, call.month, call.self.day,
                   DaysTo(call.self.day, 1))[1] <= 12) =>
        ret = Returned(DateAfter(call.year, call.month, call.self.day,
                                 DaysTo(call.self.day, 1)))

\* A date of the next month has been returned.
C13_Witness ==
    /\ ResolvedCall("FirstOnOrAfter") /\ DayInMonth
    /\ ret.tag = "Returned" /\ ret.val[1] = call.month + 1

\* C14: for a year from 1 on and a day n of the month, LastOnOrBefore(w, n)
\* resolves to the latest date on or before n that falls on w, at most 6
\* days earlier, in the previous month when it is before the first of the
\* month, unless that leads from January into the previous year.
C14_LastOnOrBefore ==
    (/\ ResolvedCall("LastOnOrBefore") /\ DayInMonth
     /\ DateAfter(call.year, call.month, call.self.day,
                   -DaysTo(call.self.day, -1))[1] >= 1) =>
        ret = Returned(DateAfter(call.year, call.month, call.self.day,
                                 -DaysTo(call.self.day, -1)))

\* A date of the previous month has been returned.
C14_Witness ==
    /\ ResolvedCall("LastOnOrBefore") /\ DayInMonth
    /\ ret.tag = "Returned" /\ ret.val[1] = call.month - 1

---------------------------------------------------------------------------
(* Properties of ChangeTime::to_timestamp *)

\* A call of to_timestamp on a change time of the given kind that is over.
StampCall(kinds) ==
    ret # NotCalled /\ call.fn = "to_timestamp" /\ call.self.tag \in kinds

\* A call of to_timestamp with both offsets 0 on the start of a year that
\* is a number.
YearStampCall ==
    /\ StampCall({"UntilYear"}) /\ call.self.year.tag = "Number"
    /\ call.utc_offset = 0 /\ call.dst_offset = 0

\* C15: with both offsets 0, the start of 1970 is at 0, the start of 1900
\* at -2208988800 = -25567 * 86400 and that of 2016 at 1451606400 =
\* 16801 * 86400, and from the start of any
\* year y to the start of year y + 1 there are 86400 * 366 seconds if y is a
\* leap year and 86400 * 365 if not, before 1970 as after it.
C15_YearStarts ==
    YearStampCall =>
        LET y == call.self.year.n
            next == ChangeTime_to_timestamp(
                        ChangeTime_UntilYear(Year_Number(y + 1)), 0, 0)
        IN  /\ ret.tag = "Returned" /\ next.tag = "Returned"
            /\ next.val = <<ret.val[1] + (IF GregorianLeap(y) THEN 366 ELSE 365),
                            ret.val[2]>>
            /\ y = 1970 => ret.val = <<0, 0>>
            /\ y = 1900 => ret.val = <<-25567, 0>>
            /\ y = 2016 => ret.val = <<16801, 0>>

\* The start of 1900, a year before 1970 that ends a century, has been
\* computed.
C15_Witness ==
    YearStampCall /\ call.self.year.n = 1900 /\ ret = Returned(<<-25567, 0>>)

\* What the claim subtracts for the offsets: nothing for a time in UTC, the
\* UTC offset for one in standard time, both offsets for one in wall-clock
\* time and for a change time without a time.
Adjustment ==
    IF call.self.tag = "UntilTime" /\ call.self.time.type = "UTC" THEN 0
    ELSE IF call.self.tag = "UntilTime" /\ call.self.time.type = "Standard"
    THEN call.utc_offset
    ELSE call.utc_offset + call.dst_offset

\* C16: for a change time that resolves, to_timestamp(u, d) is
\* to_timestamp(0, 0) minus the adjustment of its reference frame.
C16_Offsets ==
    (/\ StampCall({"UntilYear", "UntilMonth", "UntilDay", "UntilTime"})
     /\ ret.tag = "Returned") =>
        LET base == ChangeTime_to_timestamp(call.self, 0, 0)
        IN  base.tag = "Returned" /\ ret.val = I64Sub(base.val, I64(Adjustment))

\* A time in standard time has been resolved with both offsets not 0.
C16_Witness ==
    /\ StampCall({"UntilTime"}) /\ ret.tag = "Returned"
    /\ call.self.time.type = "Standard"
    /\ call.utc_offset # 0 /\ call.dst_offset # 0
    /\ ret.val # I64Sub(ChangeTime_to_timestamp(call.self, 0, 0).val,
                         I64(call.utc_offset + call.dst_offset))

\* The year that the claim reads in the text of an UNTIL year column, if it
\* is one of the four names.
NamedYear(col) ==
    IF to_ascii_lowercase(col) \in {S("min"), S("minimum")} THEN Some("Minimum")
    ELSE IF to_ascii_lowercase(col) \in {S("max"), S("maximum")}
    THEN Some("Maximum")
    ELSE None

\* A Zone or continuation line of valid columns with an UNTIL year column.
UntilLineParsed ==
    /\ Called
    /\ IsZoneLine \/ IsContinuationLine
    /\ Len(Body) \in 4..7 /\ BodyColumnsOk(Body)
    /\ IsZoneLine => Len(Columns) >= 2

\* C17: to_timestamp fails, and returns no number, on a change time whose
\* year is Year::Minimum or Year::Maximum, whatever its precision and the
\* offsets; Line::new gives such a change time for a Zone or continuation
\* line whose UNTIL year column is min, minimum, max or maximum in any
\* case, so that to_timestamp on the until-time of such a line fails.
C17_NamedYearFails ==
    /\ (/\ StampCall({"UntilYear", "UntilMonth", "UntilDay", "UntilTime"})
        /\ call.self.year.tag \in {"Minimum", "Maximum"}) => IsPanic(ret)
    /\ (UntilLineParsed /\ NamedYear(Body[4]) # None) =>
            /\ IsOk(result)
            /\ InfoOf(result.val).time # None
            /\ InfoOf(result.val).time.val.year.tag = NamedYear(Body[4]).val
            /\ call # NoCall => call.self = InfoOf(result.val).time.val
            /\ ret # NotCalled => IsPanic(ret)

\* A Zone line with year "maximum", a month and a day has been parsed and
\* to_timestamp has failed on its until-time.
C17_Witness ==
    /\ UntilLineParsed /\ IsZoneLine
    /\ Body[4] = S("maximum") /\ Len(Body) = 6
    /\ StampCall({"UntilDay"})
    /\ call.self.year = Year_Maximum
    /\ IsPanic(ret)

---------------------------------------------------------------------------
(* Properties of the field parsers *)

\* The token of the call that is over, and the one after its first
\* character.
Token == call.input
Unsigned == Tail(Token)

\* A token of digits and colons, with a digit first: H, H:MM or H:MM:SS
\* without a sign, if it is a time.
IsUnsignedTime(t) ==
    /\ t # <<>> /\ Head(t) \in DigitSet
    /\ \A i \in 1..Len(t) : t[i] \in DigitSet \cup {":"}

\* A TimeSpec with every component negated.
Negated(spec) ==
    IF spec.tag = "Hours" THEN TimeSpec_Hours(-spec.h)
    ELSE IF spec.tag = "HoursMinutes" THEN TimeSpec_HoursMinutes(-spec.h, -spec.m)
    ELSE IF spec.tag = "HoursMinutesSeconds"
    THEN TimeSpec_HoursMinutesSeconds(-spec.h, -spec.m, -spec.s)
    ELSE spec

\* The token is a hyphen before an unsigned time that TimeSpec::from_str
\* accepts.
NegativeTime ==
    /\ Token # <<>> /\ Head(Token) = "-"
    /\ IsUnsignedTime(Unsigned)
    /\ IsOk(TimeSpec_from_str(Unsigned))

\* C18: if TimeSpec::from_str accepts an unsigned time t (H, H:MM or
\* H:MM:SS), it accepts "-" followed by t and gives the TimeSpec of t with
\* every component negated, the minutes and seconds too when the hour is 0;
\* and as_seconds of it is minus as_seconds of the TimeSpec of t.
C18_NegativeTime ==
    /\ (ret # NotCalled /\ call.fn = "TimeSpec::from_str" /\ NegativeTime) =>
            ret = Ok(Negated(TimeSpec_from_str(Unsigned).val))
    /\ (call.fn = "TimeSpec::as_seconds" /\ NegativeTime) =>
            /\ call.self = Negated(TimeSpec_from_str(Unsigned).val)
            /\ ret = Returned(-TimeSpec_as_seconds(TimeSpec_from_str(Unsigned).val))
    /\ (call.fn = "TimeSpec::as_seconds" /\ Token = S("-0:01:15")) =>
            /\ call.self = TimeSpec_HoursMinutesSeconds(0, -1, -15)
            /\ ret = Returned(-75)

\* "-0:30:15" has been parsed and turned into seconds.
C18_Witness ==
    /\ call.fn = "TimeSpec::as_seconds" /\ NegativeTime
    /\ Token = S("-0:30:15")
    /\ call.self = TimeSpec_HoursMinutesSeconds(0, -30, -15)
    /\ ret = Returned(-1815)

\* The reference frame that the claim gives to a last character.
SuffixType(c) ==
    CASE c = "w" -> "Wall"
      [] c = "s" -> "Standard"
      [] c \in {"u", "g", "z"} -> "UTC"

HasSuffix(t) == t # <<>> /\ t[Len(t)] \in {"w", "s", "u", "g", "z"}
BeforeSuffix(t) == SubSeq(t, 1, Len(t) - 1)

\* The policy of two attempts: the whole token as a TimeSpec, in wall-clock
\* time; failing that, the token without its last character when that is a
\* reference-frame letter; failing that, nothing.
TwoAttempts(t) ==
    IF IsOk(TimeSpec_from_str(t))
    THEN Some(TimeSpecAndType(TimeSpec_from_str(t).val, "Wall"))
    ELSE IF HasSuffix(t) /\ IsOk(TimeSpec_from_str(BeforeSuffix(t)))
    THEN Some(TimeSpecAndType(TimeSpec_from_str(BeforeSuffix(t)).val,
                              SuffixType(t[Len(t)])))
    ELSE None

\* C19: TimeSpecAndType::from_str gives what the policy of two attempts
\* gives and fails when the policy gives nothing; "-" is (Zero, Wall), and
\* a negative time without a letter is in wall-clock time.
C19_TwoAttempts ==
    (ret # NotCalled /\ call.fn = "TimeSpecAndType::from_str") =>
        /\ TwoAttempts(Token) # None => ret = Ok(TwoAttempts(Token).val)
        /\ TwoAttempts(Token) = None => IsErr(ret)
        /\ Token = Hyphen => ret = Ok(TimeSpecAndType(TimeSpec_Zero, "Wall"))
        /\ (NegativeTime /\ ~HasSuffix(Token)) =>
                IsOk(ret) /\ ret.val.type = "Wall"

\* "-1:30z" has been parsed into a negative time in UTC.
C19_Witness ==
    /\ call.fn = "TimeSpecAndType::from_str"
    /\ Token = S("-1:30z")
    /\ ret = Ok(TimeSpecAndType(TimeSpec_HoursMinutes(-1, -30), "UTC"))

\* A number written in digits, and one written in one or two digits.
IsNumber(t) == t # <<>> /\ \A i \in 1..Len(t) : t[i] \in DigitSet
IsDayNumber(t) == IsNumber(t) /\ Len(t) <= 2

\* "last" before the name of a weekday.
IsLastWeekday(t) ==
    starts_with(t, KwLast) /\ IsOk(Weekday_from_str(SubSeq(t, 5, Len(t))))

\* A weekday of three letters, ">=" or "<=", and a day number of one or two
\* digits.
IsRelativeDay(t) ==
    /\ Len(t) \in 6..7
    /\ \A i \in 1..3 : is_alphabetic(t[i])
    /\ IsOk(Weekday_from_str(SubSeq(t, 1, 3)))
    /\ SubSeq(t, 4, 5) \in {S(">="), S("<=")}
    /\ IsDayNumber(SubSeq(t, 6, Len(t)))

\* The DaySpec that the claim reads in a token of one of the three shapes.
WrittenDay(t) ==
    IF IsNumber(t) THEN DaySpec_Ordinal(DigitsValue(t, 0))
    ELSE IF IsLastWeekday(t)
    THEN DaySpec_Last(Weekday_from_str(SubSeq(t, 5, Len(t))).val)
    ELSE IF SubSeq(t, 4, 5) = S(">=")
    THEN DaySpec_FirstOnOrAfter(Weekday_from_str(SubSeq(t, 1, 3)).val,
                                DigitsValue(SubSeq(t, 6, Len(t)), 0))
    ELSE DaySpec_LastOnOrBefore(Weekday_from_str(SubSeq(t, 1, 3)).val,
                                DigitsValue(SubSeq(t, 6, Len(t)), 0))

\* C20 as stated: DaySpec::from_str gives Ordinal(n) for a token of digits
\* writing n, Last(weekday) for "last" before a weekday name, and
\* FirstOnOrAfter(weekday, D) or LastOnOrBefore(weekday, D) for a weekday of
\* three letters, ">=" or "<=" and a number D of one or two digits, the day
\* it stores being the number written; every other token, one whose day
\* part is not a number of one or two digits too, fails with an error that
\* carries the token.
C20_AsStated ==
    (ret # NotCalled /\ call.fn = "DaySpec::from_str") =>
        IF IsNumber(Token) \/ IsLastWeekday(Token) \/ IsRelativeDay(Token)
        THEN ret = Ok(WrittenDay(Token))
        ELSE IsErr(ret) /\ ret.kind \in ColumnErrors /\ ret.text = Token

\* A signed integer: digits, after a sign or not.
IsSignedInteger(t) ==
    IsNumber(t) \/ (t # <<>> /\ Head(t) \in {"-", "+"} /\ IsNumber(Tail(t)))

\* Exactly two decimal digits.
IsTwoDigits(t) == Len(t) = 2 /\ IsNumber(t)

\* One to three segments between colons: a signed integer hour, then
\* minutes and seconds of exactly two digits.
IsClockShape(t) ==
    LET segments == split_colon(t)
    IN  /\ Len(segments) \in 1..3
        /\ IsSignedInteger(segments[1])
        /\ \A i \in 2..Len(segments) : IsTwoDigits(segments[i])

\* C21 as stated: TimeSpec::from_str accepts a token other than "-" only if
\* it is one to three segments between colons, the first a signed integer
\* hour and each later one exactly two decimal digits; every other token
\* fails with InvalidTimeSpecAndType.
C21_AsStated ==
    (ret # NotCalled /\ call.fn = "TimeSpec::from_str" /\ Token # Hyphen) =>
        /\ IsOk(ret) => IsClockShape(Token)
        /\ ~IsClockShape(Token) =>
                IsErr(ret) /\ ret.kind = "InvalidTimeSpecAndType"

---------------------------------------------------------------------------
(* Properties of the record parsers *)

\* What the field parser of column i of a Rule line gives for the text col
\* (for the TYPE column, which has no parser of its own, the error of the
\* record parser).
RuleFieldResult(i, col) ==
    CASE i \in {3, 4} -> Year_from_str(col)
      [] i = 5 -> Err("TypeColumnContainedNonHyphen", col)
      [] i = 6 -> Month_from_str(col)
      [] i = 7 -> DaySpec_from_str(col)
      [] i = 8 -> TimeSpecAndType_from_str(col)
      [] i = 9 -> TimeSpec_from_str(col)

\* What the field parser of column i of a Zone body gives for the text col.
BodyFieldResult(i, col) ==
    CASE i = 1 -> TimeSpec_from_str(col)
      [] i = 2 -> Saving_from_str(col)
      [] i = 4 -> Year_from_str(col)
      [] i = 5 -> Month_from_str(col)
      [] i = 6 -> DaySpec_from_str(col)
      [] i = 7 -> TimeSpecAndType_from_str(col)

\* The columns that their field parser does not accept.
InvalidColumns == {i \in DOMAIN Fields : ~FieldOk(i, Fields[i])}

\* A Rule, Zone or continuation line with an invalid column.
HasInvalidColumn ==
    /\ Called
    /\ IsRuleLine \/ IsZoneLine \/ IsContinuationLine
    /\ InvalidColumns # {}

Parts == call.parts

\* What the record parser of the call gives for the columns parts.
RecordOf(parts) ==
    CASE call.fn = "Rule::from_str" -> Rule_from_str(Join(parts))
      [] call.fn = "ZoneInfo::from_iter" -> ZoneInfo_from_iter(parts)
      [] call.fn = "Link::from_str" -> Link_from_str(Join(parts))

\* The columns that begin with '#', and the columns before the first of
\* them.
CommentAt == {i \in DOMAIN Parts : starts_with(Parts[i], Hash)}
BeforeComment ==
    SubSeq(Parts, 1, (CHOOSE i \in CommentAt : \A j \in CommentAt : i <= j) - 1)

\* A call of Rule::from_str or ZoneInfo::from_iter on columns with a
\* comment token among them is over.
CommentCall ==
    /\ ret # NotCalled
    /\ call.fn \in {"Rule::from_str", "ZoneInfo::from_iter"}
    /\ CommentAt # {}

LastColumn ==
    CASE call.fn = "Rule::from_str" -> 10
      [] call.fn = "ZoneInfo::from_iter" -> 7
      [] call.fn = "Link::from_str" -> 3

\* The columns up to the last one that the parser reads.
Record == SubSeq(Parts, 1, LastColumn)

\* A call on the columns of a record that parses, with tokens after them,
\* is over.
TrailingCall ==
    /\ ret # NotCalled
    /\ call.fn \in {"Rule::from_str", "ZoneInfo::from_iter", "Link::from_str"}
    /\ Len(Parts) > LastColumn
    /\ IsOk(RecordOf(Record))

\* C24: once a record parser has read its last column (the second name of
\* a Link line, LETTERS of a Rule line, the fourth UNTIL column of a Zone
\* body) it reads no more: tokens after it, valid for no column or not,
\* leave the record as it is without them.
C24_TrailingIgnored == TrailingCall => ret = RecordOf(Record)

\* A Link line with two tokens after its second name has been parsed.
C24_Witness ==
    /\ TrailingCall /\ call.fn = "Link::from_str"
    /\ Parts = <<S("Link"), S("Europe/Istanbul"), S("Asia/Istanbul"),
                 S("junk"), <<UHyphen>>>>
    /\ ret = Ok([existing |-> S("Europe/Istanbul"), new |-> S("Asia/Istanbul")])

---------------------------------------------------------------------------
(* Properties of DaySpec::to_concrete_day across the ends of the year *)

\* A call of to_concrete_day in a year from 1 on that is over, the day
\* number of a relative day specification being a day of the month.
DayCall ==
    /\ ret # NotCalled /\ call.fn = "to_concrete_day" /\ call.year >= 1
    /\ call.self.tag \in {"LastOnOrBefore", "FirstOnOrAfter"} => DayInMonth

\* Whether no day from a to b of the call's month falls on the call's
\* weekday.
NoneFrom(a, b) ==
    \A e \in a..b : TrueWeekday(call.year, call.month, e) # call.self.weekday

\* The day asked for lies in another year: before January for
\* LastOnOrBefore, after December for FirstOnOrAfter.
AcrossYear ==
    \/ /\ call.self.tag = "LastOnOrBefore" /\ call.month = 1
       /\ NoneFrom(1, call.self.day)
    \/ /\ call.self.tag = "FirstOnOrAfter" /\ call.month = 12
       /\ NoneFrom(call.self.day, 31)

\* C25: for a year from 1 on and a day number that is a day of the month,
\* to_concrete_day aborts exactly when the day asked for lies across the
\* end of the year (LastOnOrBefore in January with no such weekday from 1
\* to n, FirstOnOrAfter in December with none from n to 31); it returns no
\* date then, and returns a date in every other case.
C25_AbortsAcrossYear ==
    DayCall => IF AcrossYear THEN IsPanic(ret) ELSE ret.tag = "Returned"

\* LastOnOrBefore(Sunday, 2) in January 2016, which begins on a Friday, has
\* aborted.
C25_Witness ==
    /\ DayCall /\ AcrossYear
    /\ call.self = DaySpec_LastOnOrBefore("Sunday", 2)
    /\ call.year = 2016 /\ call.month = 1
    /\ IsPanic(ret)

---------------------------------------------------------------------------
(* Properties of ChangeTime::to_timestamp across precisions *)

\* The change time of the call with one more field, naming the start of
\* the period: January for a year, day 1 for a month, midnight in
\* wall-clock time for a day.
StartOfPeriod ==
    LET c == call.self
    IN  IF c.tag = "UntilYear" THEN ChangeTime_UntilMonth(c.year, 1)
        ELSE IF c.tag = "UntilMonth"
        THEN ChangeTime_UntilDay(c.year, c.month, DaySpec_Ordinal(1))
        ELSE ChangeTime_UntilTime(c.year, c.month, c.day,
                                  TimeSpecAndType(TimeSpec_Zero, "Wall"))

\* C26: a change time and the one that names the start of its period give
\* the same to_timestamp result for the same offsets: UntilYear(y) and
\* UntilMonth(y, January), UntilMonth(y, m) and UntilDay(y, m, Ordinal(1)),
\* UntilDay(y, m, d) and UntilTime(y, m, d, (Zero, Wall)).
C26_StartOfPeriod ==
    StampCall({"UntilYear", "UntilMonth", "UntilDay"}) =>
        ret = ChangeTime_to_timestamp(StartOfPeriod, call.utc_offset,
                                      call.dst_offset)

\* The last Sunday of a month of 2016 has been resolved with both offsets
\* not 0, and the midnight of that day gives the same.
C26_Witness ==
    /\ StampCall({"UntilDay"}) /\ ret.tag = "Returned"
    /\ call.self.year = Year_Number(2016)
    /\ call.self.day = DaySpec_Last("Sunday")
    /\ call.utc_offset # 0 /\ call.dst_offset # 0
    /\ StartOfPeriod \in ChangeTimes
    /\ ret = ChangeTime_to_timestamp(StartOfPeriod, call.utc_offset,
                                      call.dst_offset)

---------------------------------------------------------------------------
(* Properties of Weekday::calculate and ChangeTime::to_timestamp together *)

\* Both have been applied to the date of the state.
DateCall ==
    /\ weekday # NotCalled
    /\ ret # NotCalled /\ call.fn = "to_timestamp"
    /\ call.self = ChangeTime_UntilDay(Year_Number(argYear), argMonth,
                                       DaySpec_Ordinal(argDay))
    /\ call.utc_offset = 0 /\ call.dst_offset = 0
    /\ argYear >= 1

\* The days before each month and in the whole year, by Month::length.
RECURSIVE LengthsBefore(_, _)
LengthsBefore(m, leap) ==
    IF m = 1 THEN 0 ELSE LengthsBefore(m - 1, leap) + Month_length(m - 1, leap)

\* C27: for a date from year 1 on, the timestamp t of its midnight with
\* both offsets 0 is a whole number of days of 86400 seconds, and
\* Weekday::calculate gives for the date the weekday of index
\* (4 + t / 86400) mod 7, Sunday being 0 and 1970-01-01 a Thursday; and the
\* tables of the days before each month are the sums of Month::length.
C27_CalendarsAgree ==
    /\ DateCall =>
            /\ ret.tag = "Returned"
            /\ ret.val[2] = 0
            /\ weekday = Returned(Weekdays[((4 + ret.val[1]) % 7) + 1])
    /\ \A m \in 1..12 :
            /\ MONTHS_NON_LEAP[m] = LengthsBefore(m, FALSE)
            /\ MONTHS_LEAP[m] = LengthsBefore(m, TRUE)

\* 29 February 2016, a Monday, is 16860 days after 1 January 1970.
C27_Witness ==
    /\ DateCall
    /\ argYear = 2016 /\ argMonth = 2 /\ argDay = 29
    /\ weekday = Returned("Monday")
    /\ ret = Returned(<<16860, 0>>)

---------------------------------------------------------------------------
(* Properties of the dates that DaySpec::to_concrete_day returns *)

\* A call of to_concrete_day on a day specification with a weekday, in a
\* year from 1 on and with a day number from 1 to 31, has returned.
WeekdayCallReturned ==
    /\ call.fn = "to_concrete_day" /\ ret.tag = "Returned"
    /\ call.year >= 1
    /\ \/ call.self.tag = "Last"
       \/ /\ call.self.tag \in {"LastOnOrBefore", "FirstOnOrAfter"}
          /\ call.self.day \in 1..31

\* C28 as stated: what to_concrete_day returns for Last(w),
\* LastOnOrBefore(w, n) or FirstOnOrAfter(w, n), in a year from 1 on and
\* for n from 1 to 31, is a date of the calendar (a day from 1 to the
\* length of the month returned) that falls on w.
C28_AsStated ==
    WeekdayCallReturned =>
        /\ ret.val[1] \in 1..12
        /\ ret.val[2] \in 1..TrueLength(call.year, ret.val[1])
        /\ TrueWeekday(call.year, ret.val[1], ret.val[2]) = call.self.weekday

=============================================================================
